---- MODULE Spec2Model ----
(***************************************************************************)
(* Model of the AI content-generation pipeline of the Beacon Flow backend  *)
(* (src/services/linkedinService.ts on top of src/services/openaiService.ts*)
(* and the regenerate-section HTTP handler of the LinkedIn controller).    *)
(*                                                                         *)
(* Texts are sequences of tokens.  A token is one character (a blank, a    *)
(* newline, a quote, a bracket, a comma, a colon) or an unbroken run of    *)
(* other characters (a word).  The arrow of the framework labels is        *)
(* written "->".                                                           *)
(***************************************************************************)
EXTENDS Integers, Sequences, FiniteSets, TLC

\* ------------------------------------------------------------------------
\* Bounds of the model
\* ------------------------------------------------------------------------

\* most blanks the backend puts on each side of a padded sample text
MaxPad == 1

\* pipeline invocations running at the same time
NInvocations == 2

\* most rows public.m_users_posts comes to hold
MaxPosts == 3

\* ------------------------------------------------------------------------
\* Texts: String.prototype.trim
\* ------------------------------------------------------------------------

WS == {" ", "\n"}

RECURSIVE TrimLeft(_)
TrimLeft(s) ==
  IF s # <<>> /\ Head(s) \in WS THEN TrimLeft(Tail(s)) ELSE s

RECURSIVE TrimRight(_)
TrimRight(s) ==
  IF s # <<>> /\ s[Len(s)] \in WS THEN TrimRight(SubSeq(s, 1, Len(s) - 1)) ELSE s

Trim(s) == TrimRight(TrimLeft(s))

\* Array.prototype.includes on an array of texts
Includes(arr, x) == \E i \in 1..Len(arr) : arr[i] = x

\* ------------------------------------------------------------------------
\* JavaScript values.  Every value has the same four fields so that any
\* two values can be compared: t the type, x the text of a string (or the
\* literal of a number or boolean), a the elements of an array or the
\* member values of an object, k the member names of an object.
\* ------------------------------------------------------------------------

JsVal(t, x, a, k) == [t |-> t, x |-> x, a |-> a, k |-> k]

Undefined == JsVal("undefined", <<>>, <<>>, <<>>)
Null      == JsVal("null", <<>>, <<>>, <<>>)
Str(x)    == JsVal("string", x, <<>>, <<>>)
Num(n)    == JsVal("number", <<n>>, <<>>, <<>>)
Bool(b)   == JsVal("boolean", <<b>>, <<>>, <<>>)
Arr(a)    == JsVal("array", <<>>, a, <<>>)
Obj(k, a) == JsVal("object", <<>>, a, k)

\* ToBoolean: what `!v` negates
Truthy(v) ==
  CASE v.t = "undefined" -> FALSE
    [] v.t = "null"      -> FALSE
    [] v.t = "string"    -> v.x # <<>>
    [] v.t = "number"    -> v.x # <<"0">>
    [] v.t = "boolean"   -> v.x = <<"true">>
    [] OTHER             -> TRUE

\* v.name for a value that is neither null nor undefined: the member of an
\* object (the last one of that name wins; a member name is a one-word
\* text), undefined for anything else
Prop(v, name) ==
  IF v.t = "object" /\ \E i \in 1..Len(v.k) : v.k[i] = <<name>>
  THEN v.a[CHOOSE i \in 1..Len(v.k) :
             v.k[i] = <<name>> /\ \A j \in (i + 1)..Len(v.k) : v.k[j] # <<name>>]
  ELSE Undefined

\* reading a property of null or undefined throws a TypeError
PropThrows(v) == v.t \in {"null", "undefined"}

IsArray(v) == v.t = "array"

\* ------------------------------------------------------------------------
\* JSON.parse
\* ------------------------------------------------------------------------

Digits == {"0", "1", "2", "3"}

ParseFail == [ok |-> FALSE, v |-> Undefined, next |-> 0]
ParseOk(v, next) == [ok |-> TRUE, v |-> v, next |-> next]

RECURSIVE SkipWs(_, _)
SkipWs(s, i) == IF i <= Len(s) /\ s[i] \in WS THEN SkipWs(s, i + 1) ELSE i

\* position of the quote closing a string opened before i (0: none); a raw
\* newline inside a string literal is a syntax error
RECURSIVE CloseQuote(_, _)
CloseQuote(s, i) ==
  IF i > Len(s) \/ s[i] = "\n" THEN 0
  ELSE IF s[i] = "\"" THEN i
  ELSE CloseQuote(s, i + 1)

RECURSIVE ParseValue(_, _)
RECURSIVE ParseElements(_, _, _)
RECURSIVE ParseMembers(_, _, _, _)

ParseString(s, i) ==
  LET j == CloseQuote(s, i + 1)
  IN IF j = 0 THEN ParseFail ELSE ParseOk(Str(SubSeq(s, i + 1, j - 1)), j + 1)

\* s[i] is the token after "[" or after a ","; acc the elements so far
ParseElements(s, i, acc) ==
  LET r == ParseValue(s, i)
      j == SkipWs(s, r.next)
  IN IF ~r.ok \/ j > Len(s) THEN ParseFail
     ELSE IF s[j] = "]" THEN ParseOk(Arr(Append(acc, r.v)), j + 1)
     ELSE IF s[j] = "," THEN ParseElements(s, j + 1, Append(acc, r.v))
     ELSE ParseFail

\* s[i] is the token after "{" or after a ","; ks, vs the members so far
ParseMembers(s, i, ks, vs) ==
  LET n == SkipWs(s, i)
      key == IF n <= Len(s) /\ s[n] = "\"" THEN ParseString(s, n) ELSE ParseFail
      c == SkipWs(s, key.next)
      r == IF key.ok /\ c <= Len(s) /\ s[c] = ":" THEN ParseValue(s, c + 1) ELSE ParseFail
      j == SkipWs(s, r.next)
  IN IF ~r.ok \/ j > Len(s) THEN ParseFail
     ELSE IF s[j] = "}" THEN ParseOk(Obj(Append(ks, key.v.x), Append(vs, r.v)), j + 1)
     ELSE IF s[j] = "," THEN ParseMembers(s, j + 1, Append(ks, key.v.x), Append(vs, r.v))
     ELSE ParseFail

ParseValue(s, i0) ==
  LET i == SkipWs(s, i0)
  IN IF i > Len(s) THEN ParseFail
     ELSE CASE s[i] = "\"" -> ParseString(s, i)
            [] s[i] = "[" ->
                 LET e == SkipWs(s, i + 1)
                 IN IF e <= Len(s) /\ s[e] = "]" THEN ParseOk(Arr(<<>>), e + 1)
                    ELSE ParseElements(s, i + 1, <<>>)
            [] s[i] = "{" ->
                 LET e == SkipWs(s, i + 1)
                 IN IF e <= Len(s) /\ s[e] = "}" THEN ParseOk(Obj(<<>>, <<>>), e + 1)
                    ELSE ParseMembers(s, i + 1, <<>>, <<>>)
            [] s[i] = "null" -> ParseOk(Null, i + 1)
            [] s[i] \in {"true", "false"} -> ParseOk(Bool(s[i]), i + 1)
            [] s[i] \in Digits -> ParseOk(Num(s[i]), i + 1)
            [] OTHER -> ParseFail

\* JSON.parse(text): ok = FALSE stands for the SyntaxError it throws
JSONParse(s) ==
  LET r == ParseValue(s, 1)
  IN IF r.ok /\ SkipWs(s, r.next) = Len(s) + 1
     THEN [ok |-> TRUE, v |-> r.v]
     ELSE [ok |-> FALSE, v |-> Undefined]

\* ------------------------------------------------------------------------
\* Outcomes of an async function: a returned value or a thrown Error, whose
\* message is kept as the chain of the messages wrapped around its cause
\* ------------------------------------------------------------------------

Return(v)  == [status |-> "ok", value |-> v, error |-> <<>>]
Throw(msg) == [status |-> "error", value |-> Undefined, error |-> msg]
Pending    == [status |-> "pending", value |-> Undefined, error |-> <<>>]

\* catch (error) { throw new Error(`${prefix}: ${error.message}`) }
Rethrow(prefix, r) ==
  IF r.status = "error" THEN Throw(<<prefix>> \o r.error) ELSE r

\* the kind of the specification's error taxonomy a thrown Error stands for,
\* read off the message of its cause
ErrorKind(msg) ==
  CASE msg = <<>> -> "none"
    [] msg[Len(msg)] = "OpenAI API key not configured" -> "ProviderUnavailable"
    [] msg[Len(msg)] = "Connection error." -> "ProviderUnavailable"
    [] msg[Len(msg)] = "No content returned from OpenAI" -> "EmptyCompletion"
    [] msg[Len(msg)] = "SyntaxError" -> "MalformedGenerationOutput"
    [] msg[Len(msg)] = "Invalid response format from AI" -> "MalformedGenerationOutput"
    [] msg[Len(msg)] = "Invalid response format from AI - missing required sections"
         -> "IncompleteGeneration"
    [] OTHER -> "TypeError"

\* ------------------------------------------------------------------------
\* The completion backend: what openai.chat.completions.create settles to
\* ------------------------------------------------------------------------

Blanks == {b \in UNION {[1..n -> WS] : n \in 0..MaxPad} : \A i \in DOMAIN b : b[i] = " " \/ i = Len(b)}

Padded(t) == {l \o t \o r : l \in Blanks, r \in Blanks}

Lit(w) == <<"\"">> \o w \o <<"\"">>

Member(name, valueText) == Lit(<<name>>) \o <<":", " ">> \o valueText

RECURSIVE Join(_)
Join(parts) ==
  IF parts = <<>> THEN <<>>
  ELSE IF Len(parts) = 1 THEN parts[1]
  ELSE parts[1] \o <<",", " ">> \o Join(Tail(parts))

ObjText(members) == <<"{">> \o Join(members) \o <<"}">>
ArrText(elements) == <<"[">> \o Join(elements) \o <<"]">>

SectionKeys == <<"intro", "main_insight", "supporting_detail", "shift_takeaway", "cta">>

\* the members of a section object whose values are the literals of vals
SectionMembers(vals) == [i \in 1..5 |-> Member(SectionKeys[i], vals[i])]

DraftLits  == <<Lit(<<"d1">>), Lit(<<"d2">>), Lit(<<"d3">>), Lit(<<"d4">>), Lit(<<"d5", " ", "?">>)>>
PolishLits == <<Lit(<<"p1">>), Lit(<<"p2">>), Lit(<<"p3">>), Lit(<<"p4">>), Lit(<<"p5">>)>>

DesignMember == Member("design_idea", Lit(<<"chart">>))

frameworks ==
  << <<"Story", " ", "->", " ", "Insight", " ", "->", " ", "Shift">>,
     <<"Problem", " ", "->", " ", "Stakes", " ", "->", " ", "Solution">>,
     <<"Insight", " ", "->", " ", "Proof", " ", "->", " ", "Takeaway">>,
     <<"Identity", " ", "Gap", " ", "->", " ", "Mirror", " ", "->", " ", "Reframe">>,
     <<"Contrarian", " ", "Take", " ", "->", " ", "Explanation", " ", "->", " ", "New", " ", "Rule">>,
     <<"Before", " ", "->", " ", "After", " ", "->", " ", "Lesson">>,
     <<"Claim", " ", "->", " ", "Evidence", " ", "->", " ", "Example">>,
     <<"List", " ", "Format", " ", "(3-5", " ", "punchy", " ", "points)">>,
     <<"Fast", " ", "Rant", " ", "->", " ", "Clarifier", " ", "->", " ", "Resolution">> >>

DefaultFramework == <<"Problem", " ", "->", " ", "Stakes", " ", "->", " ", "Solution">>

\* texts the backend may answer with, whatever the prompt was
LabelTexts ==
  Padded(frameworks[1]) \cup {frameworks[2], frameworks[9]}
    \cup { <<"2.", " ">> \o frameworks[2],
           <<"Problem", "->", "Stakes", "->", "Solution">>,
           <<"Story">>, <<"fresh", " ", "words">>, <<"d5", " ", "?">> }

ArrayTexts ==
  { ArrText(<<>>),
    ArrText(<<Lit(<<"h1">>)>>),
    ArrText(<<Lit(<<"h1">>), Lit(<<"h2">>), Lit(<<"h3">>)>>),
    ArrText(<<Lit(<<"h1">>), Lit(<<>>), Lit(<<"h3">>)>>),
    ArrText(<<<<"1">>, <<"2">>, <<"3">>>>),
    ArrText(<<Lit(<<"h1">>), Lit(<<"h2">>), Lit(<<"h3">>), Lit(<<"h4">>), Lit(<<"h5">>),
              Lit(<<"h6">>)>>) }

ObjectTexts ==
  Padded(ObjText(SectionMembers(DraftLits) \o <<DesignMember>>))
    \cup { ObjText(<<>>),
           ObjText(SectionMembers(PolishLits)),
           ObjText(SubSeq(SectionMembers(DraftLits), 1, 4) \o <<DesignMember>>),
           ObjText(SectionMembers([DraftLits EXCEPT ![5] = Lit(<<>>)]) \o <<DesignMember>>),
           ObjText(SectionMembers([DraftLits EXCEPT ![1] = <<"null">>]) \o <<DesignMember>>),
           ObjText(SectionMembers(DraftLits)),
           ObjText(SectionMembers(DraftLits) \o <<Member("design_idea", Lit(<<>>))>>),
           ObjText(SectionMembers([PolishLits EXCEPT ![2] = <<"0">>])),
           ObjText(SectionMembers([PolishLits EXCEPT ![3] = <<"1">>])),
           ObjText(SubSeq(SectionMembers(PolishLits), 2, 5)) }

OtherTexts ==
  { <<>>, <<" ">>, <<"\n", " ">>, <<"null">>, Lit(<<"intro">>), <<"{">>,
    <<"[", "\"", "h1">>, <<"Sure", ",", " ", "here", ":", " ">> \o ArrText(<<Lit(<<"h1">>)>>) }

BackendTexts == LabelTexts \cup ArrayTexts \cup ObjectTexts \cup OtherTexts

\* a settled create(): rejected (network, HTTP error), or resolved with
\* response.choices[0]?.message?.content = content
ProviderOutcomes ==
  { [kind |-> "reject", content |-> Undefined] }
    \cup { [kind |-> "resolve", content |-> c] :
             c \in {Undefined, Null} \cup {Str(t) : t \in BackendTexts} }

\* ------------------------------------------------------------------------
\* State
\* ------------------------------------------------------------------------

VARIABLES
  configured,  \* process.env.OPENAI_API_KEY is set
  op,          \* the operation this request invoked
  pc,          \* the await the operation is suspended at
  args,        \* its arguments
  result,      \* generatePostFromHook: the parsed base-generation response
  cur,         \* the sections (or the raw section) handed to the next stage
  requests,    \* the completion requests sent to the provider, in order
  completions, \* what its calls of generateChatCompletion settled to, in order
  ret,         \* what the operation settled to
  http,        \* status of the HTTP response the handler sent (0: none yet)
  responses,   \* every res.status(..).json(..) the handler executed, in order
  req,         \* the HTTP request the handler received, and publishLinkedInPost's locals
  li,          \* the calls made to the LinkedIn API, in order
  posts,       \* the rows of public.m_users_posts, by id
  last,        \* the posts-repository call made last, with what it settled to
  inv,         \* concurrently running pipeline invocations: the locals of each
  ob           \* onboarding: the rows of public.m_user_answers and the requests

vars == <<configured, op, pc, args, result, cur, requests, completions, ret, http,
          responses, req, li, posts, last, inv, ob>>

\* what the handlers of the pipeline leave alone, and what its services do
backstage == <<li, posts, last, inv, ob>>
offstage == <<req, backstage>>

Hooks  == {<<"h1">>, <<"h2", " ", "!">>}
Topics == {<<"t1">>}

PostSections(vals) == Obj([i \in 1..5 |-> <<SectionKeys[i]>>], vals)

\* complete section sets a caller passes in
InputSections ==
  { PostSections(<<Str(<<"d1">>), Str(<<"d2">>), Str(<<"d3">>), Str(<<"d4">>),
                   Str(<<"d5", " ", "?">>)>>),
    PostSections(<<Str(<<"p1">>), Str(<<"p2">>), Str(<<"p3">>), Str(<<"p4">>),
                   Str(<<"p5">>)>>) }

NoArgs ==
  [hook |-> <<>>, topic |-> <<>>, sectionKey |-> Undefined, sections |-> Undefined,
   intention |-> Undefined]

OPEN_AI_MODEL == "gpt-5-2025-08-07"
REFINEMENT_MODEL == "gpt-5.1"

\* res.status(status).json({ success, ... })
Response(status, success) == [status |-> status, success |-> success]

\* the activation of a pipeline function that has not been called yet
IdleFrame ==
  [op |-> "none", pc |-> "idle", args |-> NoArgs, result |-> Undefined, cur |-> Undefined,
   requests |-> <<>>, completions |-> <<>>, ret |-> Pending]

Invocations == 1..NInvocations

\* no request has arrived: req.body is empty, nobody is authenticated
NoReq ==
  [section |-> Undefined, hook |-> Undefined, topic |-> Undefined,
   current_sections |-> Undefined, intention |-> Undefined,
   post_text |-> Undefined, linkedin_token |-> Undefined, generated_post_id |-> 0,
   userId |-> "", publishResult |-> [out |-> "none", success |-> FALSE, postId |-> <<>>,
                                    postUrl |-> <<>>, error |-> <<>>]]

\* auth.users ids
Users == {"u1", "u2"}

\* a row of public.m_users_posts that was never published; the creation and
\* update timestamps are left out, published_at is kept as set or not set
Row(owner, post, status, deleted) ==
  [auth_user_id |-> owner, post |-> post, status |-> status, is_deleted |-> deleted,
   linkedin_post_id |-> <<>>, linkedin_post_url |-> <<>>, published_at |-> FALSE]

\* the table when the model starts: a draft of one user, a deleted draft of the other
InitialPosts == << Row("u1", "a", 1, FALSE), Row("u2", "a", 1, TRUE) >>

\* no repository call was made yet
NoCall == [op |-> "none", userId |-> "", postId |-> 0, out |-> "none", rows |-> <<>>]

\* no onboarding request has arrived, the answers table is empty
NoOnboarding ==
  [rows |-> <<>>, unique |-> "unknown",
   req |-> [p \in Invocations |->
              [pc |-> "idle", deviceId |-> "", answers |-> <<>>, answer_4 |-> Undefined,
               status |-> 0, why |-> ""]]]

\* no request has arrived yet
PipelineInit ==
  /\ op = "none"
  /\ pc = "idle"
  /\ args = NoArgs
  /\ result = Undefined
  /\ cur = Undefined
  /\ requests = <<>>
  /\ completions = <<>>
  /\ ret = Pending
  /\ http = 0
  /\ responses = <<>>

Init ==
  /\ configured \in BOOLEAN
  /\ PipelineInit
  /\ req = NoReq
  /\ li = <<>>
  /\ posts = InitialPosts
  /\ last = NoCall
  /\ inv = [p \in Invocations |-> IdleFrame]
  /\ ob = NoOnboarding

\* ------------------------------------------------------------------------
\* openaiService.generateChatCompletion
\* ------------------------------------------------------------------------

\* temperature: number = 0.5
DefaultTemperature == "0.5"

\* the argument of openai.chat.completions.create: the model and the two
\* messages, of which the model keeps the stage whose prompts they are and
\* the sections (or the raw section) the user prompt quotes; the temperature
\* parameter of generateChatCompletion is not put into it
CreateParams(stage, model, temperature, payload) ==
  [stage |-> stage, model |-> model, temperature |-> "unset", payload |-> payload]

\* faulty variant: the request is sent before the key is looked at
Sent_unguarded(stage, model, temperature, payload) ==
  Append(requests, CreateParams(stage, model, temperature, payload))

\* faulty variant: the request is sent a second time
Sent_twice(stage, model, temperature, payload) ==
  IF configured
  THEN requests \o << CreateParams(stage, model, temperature, payload),
                      CreateParams(stage, model, temperature, payload) >>
  ELSE requests

\* the requests sent once generateChatCompletion(_, _, model, temperature)
\* was called by `stage`; nothing is sent when the key is missing
Sent(stage, model, temperature, payload) ==
  IF configured
  THEN Append(requests, CreateParams(stage, model, temperature, payload))
  ELSE requests

\* what the call settles to, o being the outcome of its create()
generateChatCompletion(cfg, o) ==
  Rethrow("OpenAI completion failed",
    IF ~cfg THEN Throw(<<"OpenAI API key not configured">>)
    ELSE IF o.kind = "reject" THEN Throw(<<"Connection error.">>)
    ELSE IF ~Truthy(o.content) THEN Throw(<<"No content returned from OpenAI">>)
    ELSE Return(Str(Trim(o.content.x))))

\* ------------------------------------------------------------------------
\* Who awaits a service: a handler of linkedinController, or nobody
\* ------------------------------------------------------------------------

\* the handlers that await a pipeline service
Handlers == {"generateHooks", "generatePost", "recommendContentIntention",
             "regeneratePostSection"}

\* faulty variant: a service that settled is started over
Settled_startsOver == IF op \in Handlers THEN "respond" ELSE "idle"

\* where the service's caller goes on once the service settled
Settled == IF op \in Handlers THEN "respond" ELSE "done"

\* ------------------------------------------------------------------------
\* linkedinService.generateHooksFromTopic
\* ------------------------------------------------------------------------

\* faulty variant: the Array.isArray check is left out
generateHooksFromTopic_try_anyJson(c) ==
  IF c.status = "error" THEN c
  ELSE LET hooks == JSONParse(c.value.x)
       IN IF ~hooks.ok THEN Throw(<<"SyntaxError">>) ELSE Return(hooks.v)

\* the try block after the await, c being the settled completion
generateHooksFromTopic_try(c) ==
  IF c.status = "error" THEN c
  ELSE LET hooks == JSONParse(c.value.x)
       IN IF ~hooks.ok THEN Throw(<<"SyntaxError">>)
          ELSE IF ~IsArray(hooks.v) THEN Throw(<<"Invalid response format from AI">>)
          ELSE Return(hooks.v)

\* faulty variant: a failed completion is answered with an empty list of hooks
generateHooksFromTopic_fallback(c) ==
  IF c.status = "error" THEN Return(Arr(<<>>))
  ELSE Rethrow("Failed to generate hooks", generateHooksFromTopic_try(c))

generateHooksFromTopic(c) ==
  Rethrow("Failed to generate hooks", generateHooksFromTopic_try(c))

generateHooksFromTopic_call ==
  /\ pc = "idle"
  /\ \E topic \in Topics :
       args' = [NoArgs EXCEPT !.topic = topic]
  /\ op' = "generateHooksFromTopic"
  /\ requests' = Sent("hooks", OPEN_AI_MODEL, DefaultTemperature, Undefined)
  /\ pc' = "hooks"
  /\ UNCHANGED <<configured, result, cur, completions, ret, http, responses>>
  /\ UNCHANGED offstage

generateHooksFromTopic_resume ==
  /\ pc = "hooks"
  /\ \E o \in ProviderOutcomes :
       LET c == generateChatCompletion(configured, o)
       IN /\ ret' = generateHooksFromTopic(c)
          /\ completions' = Append(completions, c)
  /\ pc' = Settled
  /\ UNCHANGED <<configured, op, args, result, cur, requests, http, responses>>
  /\ UNCHANGED offstage

\* ------------------------------------------------------------------------
\* linkedinService.recommendIntention
\* ------------------------------------------------------------------------

\* faulty variant: the answer is returned without the catalog check
recommendIntention_unvalidated(c) ==
  IF c.status = "error" THEN Return(Str(DefaultFramework))
  ELSE Return(Str(Trim(c.value.x)))

\* faulty variant: the catch block rethrows instead of returning the default
recommendIntention_rethrows(c) ==
  IF c.status = "error" THEN Rethrow("Failed to recommend intention", c)
  ELSE LET intention == Trim(c.value.x)
       IN IF ~Includes(frameworks, intention) THEN Return(Str(DefaultFramework))
          ELSE Return(Str(intention))

recommendIntention(c) ==
  IF c.status = "error" THEN Return(Str(DefaultFramework))
  ELSE LET intention == Trim(c.value.x)
       IN IF ~Includes(frameworks, intention) THEN Return(Str(DefaultFramework))
          ELSE Return(Str(intention))

recommendIntention_call ==
  /\ pc = "idle"
  /\ \E hook \in Hooks, topic \in Topics :
       args' = [NoArgs EXCEPT !.hook = hook, !.topic = topic]
  /\ op' = "recommendIntention"
  /\ requests' = Sent("recommend", OPEN_AI_MODEL, DefaultTemperature, Undefined)
  /\ pc' = "recommend"
  /\ UNCHANGED <<configured, result, cur, completions, ret, http, responses>>
  /\ UNCHANGED offstage

recommendIntention_resume ==
  /\ pc = "recommend"
  /\ \E o \in ProviderOutcomes :
       LET c == generateChatCompletion(configured, o)
       IN /\ ret' = recommendIntention(c)
          /\ completions' = Append(completions, c)
  /\ pc' = Settled
  /\ UNCHANGED <<configured, op, args, result, cur, requests, http, responses>>
  /\ UNCHANGED offstage

\* ------------------------------------------------------------------------
\* linkedinService.refinePostVoice, refinePostLogic (4B, 4C)
\* ------------------------------------------------------------------------

\* faulty variant: the check forgets cta
MissingSection_fourKeys(v) == \E i \in 1..4 : ~Truthy(Prop(v, SectionKeys[i]))

\* !v.intro || !v.main_insight || !v.supporting_detail || !v.shift_takeaway || !v.cta
MissingSection(v) == \E i \in 1..5 : ~Truthy(Prop(v, SectionKeys[i]))

\* { intro: v.intro, main_insight: v.main_insight, ... cta: v.cta }
SectionsOf(v) == PostSections([i \in 1..5 |-> Prop(v, SectionKeys[i])])

\* faulty variant: the refined sections are returned without the completeness check
refinePostVoice_unchecked(sections, c) ==
  IF c.status = "error" THEN Return(sections)
  ELSE LET refined == JSONParse(c.value.x)
       IN IF ~refined.ok THEN Return(sections)
          ELSE IF PropThrows(refined.v) THEN Return(sections)
          ELSE Return(SectionsOf(refined.v))

refinePostVoice(sections, c) ==
  IF c.status = "error" THEN Return(sections)
  ELSE LET refined == JSONParse(c.value.x)
       IN IF ~refined.ok THEN Return(sections)
          ELSE IF PropThrows(refined.v) THEN Return(sections)
          ELSE IF MissingSection(refined.v) THEN Return(sections)
          ELSE Return(SectionsOf(refined.v))

\* faulty variant: the polished sections are returned without the completeness check
refinePostLogic_unchecked(sections, c) ==
  IF c.status = "error" THEN Return(sections)
  ELSE LET polished == JSONParse(c.value.x)
       IN IF ~polished.ok THEN Return(sections)
          ELSE IF PropThrows(polished.v) THEN Return(sections)
          ELSE Return(SectionsOf(polished.v))

\* faulty variant: a failed completion is rethrown instead of being absorbed
refinePostLogic_throws(sections, c) ==
  IF c.status = "error" THEN Rethrow("Logic refinement failed", c)
  ELSE LET polished == JSONParse(c.value.x)
       IN IF ~polished.ok THEN Throw(<<"SyntaxError">>)
          ELSE IF PropThrows(polished.v) THEN Throw(<<"TypeError">>)
          ELSE IF MissingSection(polished.v) THEN Return(sections)
          ELSE Return(SectionsOf(polished.v))

refinePostLogic(sections, c) ==
  IF c.status = "error" THEN Return(sections)
  ELSE LET polished == JSONParse(c.value.x)
       IN IF ~polished.ok THEN Return(sections)
          ELSE IF PropThrows(polished.v) THEN Return(sections)
          ELSE IF MissingSection(polished.v) THEN Return(sections)
          ELSE Return(SectionsOf(polished.v))

refinePostVoice_call ==
  /\ pc = "idle"
  /\ \E sections \in InputSections, hook \in Hooks, topic \in Topics :
       /\ args' = [NoArgs EXCEPT !.hook = hook, !.topic = topic, !.sections = sections]
       /\ requests' = Sent("voice", REFINEMENT_MODEL, "0.7", sections)
  /\ op' = "refinePostVoice"
  /\ pc' = "voice"
  /\ UNCHANGED <<configured, result, cur, completions, ret, http, responses>>
  /\ UNCHANGED offstage

refinePostVoice_resume ==
  /\ pc = "voice"
  /\ \E o \in ProviderOutcomes :
       LET c == generateChatCompletion(configured, o)
       IN /\ ret' = refinePostVoice(args.sections, c)
          /\ completions' = Append(completions, c)
  /\ pc' = Settled
  /\ UNCHANGED <<configured, op, args, result, cur, requests, http, responses>>
  /\ UNCHANGED offstage

refinePostLogic_call ==
  /\ pc = "idle"
  /\ \E sections \in InputSections, hook \in Hooks, topic \in Topics :
       /\ args' = [NoArgs EXCEPT !.hook = hook, !.topic = topic, !.sections = sections]
       /\ requests' = Sent("logic", REFINEMENT_MODEL, "0.5", sections)
  /\ op' = "refinePostLogic"
  /\ pc' = "logic"
  /\ UNCHANGED <<configured, result, cur, completions, ret, http, responses>>
  /\ UNCHANGED offstage

refinePostLogic_resume ==
  /\ pc = "logic"
  /\ \E o \in ProviderOutcomes :
       LET c == generateChatCompletion(configured, o)
       IN /\ ret' = refinePostLogic(args.sections, c)
          /\ completions' = Append(completions, c)
  /\ pc' = Settled
  /\ UNCHANGED <<configured, op, args, result, cur, requests, http, responses>>
  /\ UNCHANGED offstage

\* ------------------------------------------------------------------------
\* linkedinService.generatePostFromHook (4A, then 4B, then 4C)
\* ------------------------------------------------------------------------

\* !result.intro || ... || !result.cta || !result.design_idea
MissingRequired(v) == MissingSection(v) \/ ~Truthy(Prop(v, "design_idea"))

\* faulty variant: the parsed response is taken without checking the required keys
generatePostFromHook_base_unvalidated(c) ==
  IF c.status = "error" THEN c
  ELSE LET parsed == JSONParse(c.value.x)
       IN IF ~parsed.ok THEN Throw(<<"SyntaxError">>)
          ELSE IF PropThrows(parsed.v) THEN Throw(<<"TypeError">>)
          ELSE Return(parsed.v)

\* 4A after the await: the parsed and validated response
generatePostFromHook_base(c) ==
  IF c.status = "error" THEN c
  ELSE LET parsed == JSONParse(c.value.x)
       IN IF ~parsed.ok THEN Throw(<<"SyntaxError">>)
          ELSE IF PropThrows(parsed.v) THEN Throw(<<"TypeError">>)
          ELSE IF MissingRequired(parsed.v)
            THEN Throw(<<"Invalid response format from AI - missing required sections">>)
          ELSE Return(parsed.v)

\* faulty variant: the unrefined base sections are returned
PostResult_baseSections(finalSections, res) ==
  Obj(<< <<"sections">>, <<"design_idea">> >>, <<SectionsOf(res), Prop(res, "design_idea")>>)

\* { sections: finalSections, design_idea: result.design_idea }
PostResult(finalSections, res) ==
  Obj(<< <<"sections">>, <<"design_idea">> >>, <<finalSections, Prop(res, "design_idea")>>)

\* faulty variant: the list framework is keyed by a shortened label
frameworkInstructions_shortKey ==
  (<<"Story", " ", "->", " ", "Insight", " ", "->", " ", "Shift">>
     :> <<"Share a personal story or example, ...">>)
  @@ (<<"Problem", " ", "->", " ", "Stakes", " ", "->", " ", "Solution">>
     :> <<"Clearly state the problem, ...">>)
  @@ (<<"Insight", " ", "->", " ", "Proof", " ", "->", " ", "Takeaway">>
     :> <<"Lead with a surprising or valuable insight, ...">>)
  @@ (<<"Identity", " ", "Gap", " ", "->", " ", "Mirror", " ", "->", " ", "Reframe">>
     :> <<"Highlight a disconnect ...">>)
  @@ (<<"Contrarian", " ", "Take", " ", "->", " ", "Explanation", " ", "->", " ", "New", " ",
        "Rule">>
     :> <<"Present a contrarian or unpopular opinion, ...">>)
  @@ (<<"Before", " ", "->", " ", "After", " ", "->", " ", "Lesson">>
     :> <<"Describe the \"before\" state or situation, ...">>)
  @@ (<<"Claim", " ", "->", " ", "Evidence", " ", "->", " ", "Example">>
     :> <<"Make a bold claim or statement, ...">>)
  @@ (<<"List", " ", "Format">>
     :> <<"Create a numbered or bulleted list of 3-5 key points, ...">>)
  @@ (<<"Fast", " ", "Rant", " ", "->", " ", "Clarifier", " ", "->", " ", "Resolution">>
     :> <<"Start with an energetic rant ...">>)

\* frameworkInstructions: the structural instruction of each framework label
frameworkInstructions ==
  (<<"Story", " ", "->", " ", "Insight", " ", "->", " ", "Shift">>
     :> <<"Share a personal story or example, ...">>)
  @@ (<<"Problem", " ", "->", " ", "Stakes", " ", "->", " ", "Solution">>
     :> <<"Clearly state the problem, ...">>)
  @@ (<<"Insight", " ", "->", " ", "Proof", " ", "->", " ", "Takeaway">>
     :> <<"Lead with a surprising or valuable insight, ...">>)
  @@ (<<"Identity", " ", "Gap", " ", "->", " ", "Mirror", " ", "->", " ", "Reframe">>
     :> <<"Highlight a disconnect ...">>)
  @@ (<<"Contrarian", " ", "Take", " ", "->", " ", "Explanation", " ", "->", " ", "New", " ",
        "Rule">>
     :> <<"Present a contrarian or unpopular opinion, ...">>)
  @@ (<<"Before", " ", "->", " ", "After", " ", "->", " ", "Lesson">>
     :> <<"Describe the \"before\" state or situation, ...">>)
  @@ (<<"Claim", " ", "->", " ", "Evidence", " ", "->", " ", "Example">>
     :> <<"Make a bold claim or statement, ...">>)
  @@ (<<"List", " ", "Format", " ", "(3-5", " ", "punchy", " ", "points)">>
     :> <<"Create a numbered or bulleted list of 3-5 key points, ...">>)
  @@ (<<"Fast", " ", "Rant", " ", "->", " ", "Clarifier", " ", "->", " ", "Resolution">>
     :> <<"Start with an energetic rant ...">>)

\* frameworkGuidance: what the framework adds to the system prompt of the
\* base generation, the empty text when intention is absent or has no entry
frameworkGuidance(intention) ==
  IF Truthy(intention) /\ intention.x \in DOMAIN frameworkInstructions
  THEN Str(<<"IMPORTANT - Follow this content framework: ">> \o intention.x
           \o <<" Structure your post sections using this pattern: ">>
           \o frameworkInstructions[intention.x])
  ELSE Str(<<>>)

\* intentions a caller passes: none, catalog labels, a label of its own
Intentions == {Undefined, Str(frameworks[2]), Str(frameworks[8]), Str(<<"Story">>)}

generatePostFromHook_call ==
  /\ pc = "idle"
  /\ \E hook \in Hooks, topic \in Topics, intention \in Intentions :
       /\ args' = [NoArgs EXCEPT !.hook = hook, !.topic = topic, !.intention = intention]
       /\ requests' = Sent("base", OPEN_AI_MODEL, DefaultTemperature,
                           frameworkGuidance(intention))
  /\ op' = "generatePostFromHook"
  /\ pc' = "4A"
  /\ UNCHANGED <<configured, result, cur, completions, ret, http, responses>>
  /\ UNCHANGED offstage

\* the base draft arrives; on success refinePostVoice is called
generatePostFromHook_4A ==
  /\ pc = "4A"
  /\ \E o \in ProviderOutcomes :
       LET c == generateChatCompletion(configured, o)
           base == generatePostFromHook_base(c)
       IN /\ completions' = Append(completions, c)
          /\ IF base.status = "error"
             THEN /\ ret' = Rethrow("Failed to generate post", base)
                  /\ pc' = Settled
                  /\ UNCHANGED <<result, cur, requests>>
             ELSE /\ result' = base.value
                  /\ cur' = SectionsOf(base.value)
                  /\ requests' = Sent("voice", REFINEMENT_MODEL, "0.7", cur')
                  /\ pc' = "4B"
                  /\ UNCHANGED ret
  /\ UNCHANGED <<configured, op, args, http, responses>>
  /\ UNCHANGED offstage

\* faulty variant: refinePostLogic is handed rawSections, not voiceRefined
generatePostFromHook_4B_rawToLogic ==
  /\ pc = "4B"
  /\ \E o \in ProviderOutcomes :
       LET c == generateChatCompletion(configured, o)
           voiceRefined == refinePostVoice(cur, c)
       IN /\ completions' = Append(completions, c)
          /\ IF voiceRefined.status = "error"
             THEN /\ ret' = Rethrow("Failed to generate post", voiceRefined)
                  /\ pc' = Settled
                  /\ UNCHANGED <<cur, requests>>
             ELSE /\ cur' = cur
                  /\ requests' = Sent("logic", REFINEMENT_MODEL, "0.5", cur)
                  /\ pc' = "4C"
                  /\ UNCHANGED ret
  /\ UNCHANGED <<configured, op, args, result, http, responses>>
  /\ UNCHANGED offstage

\* refinePostVoice settles; on success refinePostLogic is called
generatePostFromHook_4B ==
  /\ pc = "4B"
  /\ \E o \in ProviderOutcomes :
       LET c == generateChatCompletion(configured, o)
           voiceRefined == refinePostVoice(cur, c)
       IN /\ completions' = Append(completions, c)
          /\ IF voiceRefined.status = "error"
             THEN /\ ret' = Rethrow("Failed to generate post", voiceRefined)
                  /\ pc' = Settled
                  /\ UNCHANGED <<cur, requests>>
             ELSE /\ cur' = voiceRefined.value
                  /\ requests' = Sent("logic", REFINEMENT_MODEL, "0.5", cur')
                  /\ pc' = "4C"
                  /\ UNCHANGED ret
  /\ UNCHANGED <<configured, op, args, result, http, responses>>
  /\ UNCHANGED offstage

\* refinePostLogic settles; the pipeline returns
generatePostFromHook_4C ==
  /\ pc = "4C"
  /\ \E o \in ProviderOutcomes :
       LET c == generateChatCompletion(configured, o)
           finalSections == refinePostLogic(cur, c)
       IN /\ completions' = Append(completions, c)
          /\ IF finalSections.status = "error"
             THEN /\ ret' = Rethrow("Failed to generate post", finalSections)
                  /\ UNCHANGED cur
             ELSE /\ ret' = Return(PostResult(finalSections.value, result))
                  /\ cur' = finalSections.value
  /\ pc' = Settled
  /\ UNCHANGED <<configured, op, args, result, requests, http, responses>>
  /\ UNCHANGED offstage

\* ------------------------------------------------------------------------
\* linkedinService.regenerateSection with refineSingleSection, and the
\* handler linkedinController.regeneratePostSection in front of it
\* ------------------------------------------------------------------------

validSections == [i \in 1..5 |-> Str(<<SectionKeys[i]>>)]

\* faulty variant: the catch block of the polishing pass rethrows
refineSingleSection_throws(rawContent, c) ==
  IF c.status = "error" THEN Rethrow("Error refining single section", c)
  ELSE Return(Str(Trim(c.value.x)))

\* the polishing pass: the trimmed completion, or the raw content if it failed
refineSingleSection(rawContent, c) ==
  IF c.status = "error" THEN Return(Str(rawContent)) ELSE Return(Str(Trim(c.value.x)))

\* a section key reaching the service is whatever its caller passes:
\* SectionKey is a compile-time type only
SectionKeyArgs == {validSections[i] : i \in 1..5} \cup {Str(<<"headline">>)}

\* the service called directly
regenerateSection_call ==
  /\ pc = "idle"
  /\ \E sectionKey \in SectionKeyArgs, sections \in InputSections,
        hook \in Hooks, topic \in Topics :
       /\ args' = [NoArgs EXCEPT !.hook = hook, !.topic = topic,
                                  !.sectionKey = sectionKey, !.sections = sections]
       /\ requests' = Sent("raw", OPEN_AI_MODEL, DefaultTemperature, sections)
  /\ op' = "regenerateSection"
  /\ pc' = "raw"
  /\ UNCHANGED <<configured, result, cur, completions, ret, http, responses>>
  /\ UNCHANGED offstage

\* request bodies of POST /api/linkedin/regenerate-section
BodySections == SectionKeyArgs \cup {Undefined, Str(<<>>)}
BodyStrings(good) == {Str(g) : g \in good} \cup {Undefined, Str(<<" ">>), Num("1")}
BodyCurrent == InputSections \cup {Undefined, Null, Str(<<"d1">>)}

\* faulty variant: the trimmed length is not looked at
BlankString_untrimmed(v) == ~Truthy(v) \/ v.t # "string"

\* !v || typeof v !== 'string' || v.trim().length === 0
BlankString(v) == ~Truthy(v) \/ v.t # "string" \/ Len(Trim(v.x)) = 0

\* the four validations of the handler: TRUE when the body is rejected
regeneratePostSection_invalid(section, hook, topic, current_sections) ==
  \/ ~Truthy(section) \/ ~Includes(validSections, section)
  \/ BlankString(hook)
  \/ BlankString(topic)
  \/ ~Truthy(current_sections) \/ current_sections.t \notin {"object", "array"}

\* intention?.trim() throws a TypeError unless intention is absent or a string
TrimThrows(v) == v.t \notin {"undefined", "null", "string"}
OptTrim(v) == IF v.t = "string" THEN Str(Trim(v.x)) ELSE Undefined

\* the intention field of a request body
BodyIntentions == {Undefined, Str(frameworks[8] \o <<" ">>), Num("1")}

\* res.status(status).json({ success, ... }); the handler returns
Answer(status, success) ==
  /\ http' = status
  /\ responses' = Append(responses, Response(status, success))
  /\ pc' = "done"

regeneratePostSection_handle ==
  /\ pc = "idle"
  /\ op' = "regeneratePostSection"
  /\ \E section \in BodySections, hook \in BodyStrings(Hooks),
        topic \in BodyStrings(Topics), current_sections \in BodyCurrent,
        intention \in {Undefined, Num("1")} :
       /\ req' = [NoReq EXCEPT !.section = section, !.hook = hook, !.topic = topic,
                               !.current_sections = current_sections,
                               !.intention = intention]
       /\ IF regeneratePostSection_invalid(section, hook, topic, current_sections)
          THEN /\ Answer(400, FALSE)
               /\ args' = [NoArgs EXCEPT !.sectionKey = section]
               /\ UNCHANGED requests
          ELSE IF TrimThrows(intention)
          THEN /\ Answer(500, FALSE)
               /\ UNCHANGED <<args, requests>>
          ELSE /\ args' = [NoArgs EXCEPT !.hook = Trim(hook.x), !.topic = Trim(topic.x),
                                         !.sectionKey = section,
                                         !.sections = current_sections]
               /\ requests' = Sent("raw", OPEN_AI_MODEL, DefaultTemperature,
                                   current_sections)
               /\ pc' = "raw"
               /\ UNCHANGED <<http, responses>>
  /\ UNCHANGED <<configured, result, cur, completions, ret>>
  /\ UNCHANGED backstage

\* the raw section arrives; on success refineSingleSection is called
regenerateSection_raw ==
  /\ pc = "raw"
  /\ \E o \in ProviderOutcomes :
       LET rawSection == generateChatCompletion(configured, o)
       IN /\ completions' = Append(completions, rawSection)
          /\ IF rawSection.status = "error"
             THEN /\ ret' = Rethrow("Failed to regenerate section", rawSection)
                  /\ pc' = Settled
                  /\ UNCHANGED <<cur, requests>>
             ELSE /\ cur' = Str(Trim(rawSection.value.x))
                  /\ requests' = Sent("polish", REFINEMENT_MODEL, "0.6", cur')
                  /\ pc' = "polish"
                  /\ UNCHANGED ret
  /\ UNCHANGED <<configured, op, args, result, http, responses>>
  /\ UNCHANGED offstage

\* refineSingleSection settles; the service returns
regenerateSection_polish ==
  /\ pc = "polish"
  /\ \E o \in ProviderOutcomes :
       LET c == generateChatCompletion(configured, o)
       IN /\ ret' = Rethrow("Failed to regenerate section", refineSingleSection(cur.x, c))
          /\ completions' = Append(completions, c)
  /\ pc' = Settled
  /\ UNCHANGED <<configured, op, args, result, cur, requests, http, responses>>
  /\ UNCHANGED offstage

\* the handler answers: 200 with the content, 500 when the service threw
regeneratePostSection_respond ==
  /\ pc = "respond"
  /\ op = "regeneratePostSection"
  /\ Answer(IF ret.status = "ok" THEN 200 ELSE 500, ret.status = "ok")
  /\ UNCHANGED <<configured, op, args, result, cur, requests, completions, ret>>
  /\ UNCHANGED offstage

\* ------------------------------------------------------------------------
\* linkedinController: generateHooks, generatePost, recommendContentIntention
\* ------------------------------------------------------------------------

generateHooks_handle ==
  /\ pc = "idle"
  /\ op' = "generateHooks"
  /\ \E topic \in BodyStrings(Topics) :
       /\ req' = [NoReq EXCEPT !.topic = topic]
       /\ IF BlankString(topic)
          THEN /\ Answer(400, FALSE)
               /\ UNCHANGED <<args, requests>>
          ELSE /\ args' = [NoArgs EXCEPT !.topic = Trim(topic.x)]
               /\ requests' = Sent("hooks", OPEN_AI_MODEL, DefaultTemperature, Undefined)
               /\ pc' = "hooks"
               /\ UNCHANGED <<http, responses>>
  /\ UNCHANGED <<configured, result, cur, completions, ret>>
  /\ UNCHANGED backstage

generateHooks_respond ==
  /\ pc = "respond"
  /\ op = "generateHooks"
  /\ Answer(IF ret.status = "ok" THEN 200 ELSE 500, ret.status = "ok")
  /\ UNCHANGED <<configured, op, args, result, cur, requests, completions, ret>>
  /\ UNCHANGED offstage

\* faulty variant: the return after the 400 answers is missing
generatePost_handle_fallsThrough ==
  /\ pc = "idle"
  /\ op' = "generatePost"
  /\ \E hook \in BodyStrings(Hooks), topic \in BodyStrings(Topics),
        intention \in BodyIntentions :
       /\ req' = [NoReq EXCEPT !.hook = hook, !.topic = topic, !.intention = intention]
       /\ IF TrimThrows(hook) \/ TrimThrows(topic) \/ TrimThrows(intention)
          THEN /\ Answer(500, FALSE)
               /\ UNCHANGED <<args, requests>>
          ELSE /\ args' = [NoArgs EXCEPT !.hook = Trim(hook.x), !.topic = Trim(topic.x),
                                         !.intention = OptTrim(intention)]
               /\ requests' = Sent("base", OPEN_AI_MODEL, DefaultTemperature,
                                   frameworkGuidance(OptTrim(intention)))
               /\ pc' = "4A"
               /\ http' = IF BlankString(hook) \/ BlankString(topic) THEN 400 ELSE http
               /\ responses' = IF BlankString(hook) \/ BlankString(topic)
                                THEN Append(responses, Response(400, FALSE))
                                ELSE responses
  /\ UNCHANGED <<configured, result, cur, completions, ret>>
  /\ UNCHANGED backstage

generatePost_handle ==
  /\ pc = "idle"
  /\ op' = "generatePost"
  /\ \E hook \in BodyStrings(Hooks), topic \in BodyStrings(Topics),
        intention \in BodyIntentions :
       /\ req' = [NoReq EXCEPT !.hook = hook, !.topic = topic, !.intention = intention]
       /\ IF BlankString(hook) \/ BlankString(topic)
          THEN /\ Answer(400, FALSE)
               /\ UNCHANGED <<args, requests>>
          ELSE IF TrimThrows(intention)
          THEN /\ Answer(500, FALSE)
               /\ UNCHANGED <<args, requests>>
          ELSE /\ args' = [NoArgs EXCEPT !.hook = Trim(hook.x), !.topic = Trim(topic.x),
                                         !.intention = OptTrim(intention)]
               /\ requests' = Sent("base", OPEN_AI_MODEL, DefaultTemperature,
                                   frameworkGuidance(OptTrim(intention)))
               /\ pc' = "4A"
               /\ UNCHANGED <<http, responses>>
  /\ UNCHANGED <<configured, result, cur, completions, ret>>
  /\ UNCHANGED backstage

generatePost_respond ==
  /\ pc = "respond"
  /\ op = "generatePost"
  /\ Answer(IF ret.status = "ok" THEN 200 ELSE 500, ret.status = "ok")
  /\ UNCHANGED <<configured, op, args, result, cur, requests, completions, ret>>
  /\ UNCHANGED offstage

recommendContentIntention_handle ==
  /\ pc = "idle"
  /\ op' = "recommendContentIntention"
  /\ \E hook \in BodyStrings(Hooks), topic \in BodyStrings(Topics) :
       /\ req' = [NoReq EXCEPT !.hook = hook, !.topic = topic]
       /\ IF BlankString(hook) \/ BlankString(topic)
          THEN /\ Answer(400, FALSE)
               /\ UNCHANGED <<args, requests>>
          ELSE /\ args' = [NoArgs EXCEPT !.hook = Trim(hook.x), !.topic = Trim(topic.x)]
               /\ requests' = Sent("recommend", OPEN_AI_MODEL, DefaultTemperature,
                                   Undefined)
               /\ pc' = "recommend"
               /\ UNCHANGED <<http, responses>>
  /\ UNCHANGED <<configured, result, cur, completions, ret>>
  /\ UNCHANGED backstage

recommendContentIntention_respond ==
  /\ pc = "respond"
  /\ op = "recommendContentIntention"
  /\ Answer(IF ret.status = "ok" THEN 200 ELSE 500, ret.status = "ok")
  /\ UNCHANGED <<configured, op, args, result, cur, requests, completions, ret>>
  /\ UNCHANGED offstage

\* ------------------------------------------------------------------------
\* linkedinController: getLinkedInStatus, disconnectLinkedIn, getSuggestion
\* ------------------------------------------------------------------------

getLinkedInStatus_handle ==
  /\ pc = "idle"
  /\ op' = "getLinkedInStatus"
  /\ \E userId \in Users \cup {""} :
       /\ req' = [NoReq EXCEPT !.userId = userId]
       /\ IF userId = "" THEN Answer(401, FALSE) ELSE Answer(200, TRUE)
  /\ UNCHANGED <<configured, args, result, cur, requests, completions, ret>>
  /\ UNCHANGED backstage

disconnectLinkedIn_handle ==
  /\ pc = "idle"
  /\ op' = "disconnectLinkedIn"
  /\ Answer(200, TRUE)
  /\ UNCHANGED <<configured, args, result, cur, requests, completions, ret>>
  /\ UNCHANGED offstage

getSuggestion_handle ==
  /\ pc = "idle"
  /\ op' = "getSuggestion"
  /\ Answer(501, FALSE)
  /\ UNCHANGED <<configured, args, result, cur, requests, completions, ret>>
  /\ UNCHANGED offstage


\* ------------------------------------------------------------------------
\* Several pipeline invocations in flight at once.  Every call of an async
\* function of linkedinService has its own activation (its parameters and
\* its consts); the module keeps no variable of its own besides constants.
\* ------------------------------------------------------------------------

\* faulty variant: the locals are module-level variables all invocations share
Locals_shared(p) == inv[1]

\* the parameters and consts of invocation p
Locals(p) == inv[p]

\* what the backend answers while several invocations are in flight
InFlightOutcomes ==
  { [kind |-> "reject", content |-> Undefined],
    [kind |-> "resolve",
     content |-> Str(ObjText(SectionMembers(DraftLits) \o <<DesignMember>>))],
    [kind |-> "resolve", content |-> Str(ObjText(SectionMembers(PolishLits)))],
    [kind |-> "resolve",
     content |-> Str(ArrText(<<Lit(<<"h1">>), Lit(<<"h2">>), Lit(<<"h3">>)>>))] }

\* the requests of activation f once one more call of generateChatCompletion
\* was made in it
SentBy(f, stage, model, temperature, payload) ==
  IF configured
  THEN Append(f.requests, CreateParams(stage, model, temperature, payload))
  ELSE f.requests

\* activation f once its function was called with args
Called(f, name, a, stage, payload) ==
  [f EXCEPT !.op = name, !.args = a, !.pc = stage,
            !.requests = SentBy(f, stage, OPEN_AI_MODEL, DefaultTemperature, payload)]

\* activation f once it settled to r after completion c
Finished(f, c, r) ==
  [f EXCEPT !.completions = Append(@, c), !.ret = r, !.pc = "done"]

\* generatePostFromHook 4A in activation f: the base draft arrived
After4A(f, c) ==
  LET base == generatePostFromHook_base(c)
  IN IF base.status = "error"
     THEN Finished(f, c, Rethrow("Failed to generate post", base))
     ELSE [f EXCEPT !.completions = Append(@, c),
                    !.result = base.value,
                    !.cur = SectionsOf(base.value),
                    !.requests = SentBy(f, "voice", REFINEMENT_MODEL, "0.7",
                                        SectionsOf(base.value)),
                    !.pc = "4B"]

\* 4B in activation f: refinePostVoice settled
After4B(f, c) ==
  LET voiceRefined == refinePostVoice(f.cur, c)
  IN [f EXCEPT !.completions = Append(@, c),
               !.cur = voiceRefined.value,
               !.requests = SentBy(f, "logic", REFINEMENT_MODEL, "0.5", voiceRefined.value),
               !.pc = "4C"]

\* 4C in activation f: refinePostLogic settled
After4C(f, c) ==
  LET finalSections == refinePostLogic(f.cur, c)
  IN [Finished(f, c, Return(PostResult(finalSections.value, f.result)))
        EXCEPT !.cur = finalSections.value]

\* regenerateSection in activation f: the raw section arrived
AfterRaw(f, rawSection) ==
  IF rawSection.status = "error"
  THEN Finished(f, rawSection, Rethrow("Failed to regenerate section", rawSection))
  ELSE [f EXCEPT !.completions = Append(@, rawSection),
                 !.cur = Str(Trim(rawSection.value.x)),
                 !.requests = SentBy(f, "polish", REFINEMENT_MODEL, "0.6",
                                     Str(Trim(rawSection.value.x))),
                 !.pc = "polish"]

\* everything but the invocations in flight
allButInv == <<configured, op, pc, args, result, cur, requests, completions, ret, http,
               responses, req, li, posts, last, ob>>

generateHooksFromTopic_begin(p) ==
  /\ inv[p].pc = "idle"
  /\ \E topic \in Topics :
       inv' = [inv EXCEPT ![p] = Called(Locals(p), "generateHooksFromTopic",
                                        [NoArgs EXCEPT !.topic = topic], "hooks", Undefined)]
  /\ UNCHANGED allButInv

generateHooksFromTopic_settle(p) ==
  /\ inv[p].pc = "hooks"
  /\ \E o \in InFlightOutcomes :
       LET c == generateChatCompletion(configured, o)
       IN inv' = [inv EXCEPT ![p] = Finished(Locals(p), c, generateHooksFromTopic(c))]
  /\ UNCHANGED allButInv

recommendIntention_begin(p) ==
  /\ inv[p].pc = "idle"
  /\ \E hook \in {<<"h1">>}, topic \in Topics :
       inv' = [inv EXCEPT ![p] = Called(Locals(p), "recommendIntention",
                                        [NoArgs EXCEPT !.hook = hook, !.topic = topic],
                                        "recommend", Undefined)]
  /\ UNCHANGED allButInv

recommendIntention_settle(p) ==
  /\ inv[p].pc = "recommend"
  /\ \E o \in InFlightOutcomes :
       LET c == generateChatCompletion(configured, o)
       IN inv' = [inv EXCEPT ![p] = Finished(Locals(p), c, recommendIntention(c))]
  /\ UNCHANGED allButInv

generatePostFromHook_begin(p) ==
  /\ inv[p].pc = "idle"
  /\ \E hook \in {<<"h1">>}, topic \in Topics :
       inv' = [inv EXCEPT ![p] = Called(Locals(p), "generatePostFromHook",
                                        [NoArgs EXCEPT !.hook = hook, !.topic = topic],
                                        "4A", Undefined)]
  /\ UNCHANGED allButInv

generatePostFromHook_settle4A(p) ==
  /\ inv[p].pc = "4A"
  /\ \E o \in InFlightOutcomes :
       inv' = [inv EXCEPT ![p] = After4A(Locals(p), generateChatCompletion(configured, o))]
  /\ UNCHANGED allButInv

generatePostFromHook_settle4B(p) ==
  /\ inv[p].pc = "4B"
  /\ \E o \in InFlightOutcomes :
       inv' = [inv EXCEPT ![p] = After4B(Locals(p), generateChatCompletion(configured, o))]
  /\ UNCHANGED allButInv

generatePostFromHook_settle4C(p) ==
  /\ inv[p].pc = "4C"
  /\ \E o \in InFlightOutcomes :
       inv' = [inv EXCEPT ![p] = After4C(Locals(p), generateChatCompletion(configured, o))]
  /\ UNCHANGED allButInv

regenerateSection_begin(p) ==
  /\ inv[p].pc = "idle"
  /\ \E sectionKey \in {validSections[5]}, sections \in InputSections :
       inv' = [inv EXCEPT ![p] =
                 Called(Locals(p), "regenerateSection",
                        [NoArgs EXCEPT !.hook = <<"h1">>, !.topic = <<"t1">>,
                                       !.sectionKey = sectionKey, !.sections = sections],
                        "raw", sections)]
  /\ UNCHANGED allButInv

regenerateSection_settleRaw(p) ==
  /\ inv[p].pc = "raw"
  /\ \E o \in InFlightOutcomes :
       inv' = [inv EXCEPT ![p] = AfterRaw(Locals(p), generateChatCompletion(configured, o))]
  /\ UNCHANGED allButInv

regenerateSection_settlePolish(p) ==
  /\ inv[p].pc = "polish"
  /\ \E o \in InFlightOutcomes :
       LET c == generateChatCompletion(configured, o)
       IN inv' = [inv EXCEPT ![p] =
                    Finished(Locals(p), c,
                             Rethrow("Failed to regenerate section",
                                     refineSingleSection(Locals(p).cur.x, c)))]
  /\ UNCHANGED allButInv

\* the event loop runs one continuation at a time, of any invocation
ConcurrentNext ==
  \E p \in Invocations :
    \/ generateHooksFromTopic_begin(p)
    \/ generateHooksFromTopic_settle(p)
    \/ recommendIntention_begin(p)
    \/ recommendIntention_settle(p)
    \/ generatePostFromHook_begin(p)
    \/ generatePostFromHook_settle4A(p)
    \/ generatePostFromHook_settle4B(p)
    \/ generatePostFromHook_settle4C(p)
    \/ regenerateSection_begin(p)
    \/ regenerateSection_settleRaw(p)
    \/ regenerateSection_settlePolish(p)

ConcurrentSpec == Init /\ [][ConcurrentNext]_vars

\* ------------------------------------------------------------------------
\* postsRepository: the statements it runs on public.m_users_posts.  A
\* statement yields the table after it, whether the call returned, and the
\* ids of the rows it returned.
\* ------------------------------------------------------------------------

\* faulty variant: the is_deleted condition is missing
Matches_deletedToo(row, userId) == row.auth_user_id = userId

\* faulty variant: the auth_user_id condition is missing
Matches_anyOwner(row, userId) == ~row.is_deleted

\* WHERE auth_user_id = $userId AND is_deleted = false
Matches(row, userId) == row.auth_user_id = userId /\ ~row.is_deleted

Settles(t, out, rows) == [table |-> t, out |-> out, rows |-> rows]

\* the ids of S, largest first: ORDER BY created_at DESC
RECURSIVE Newest(_)
Newest(S) ==
  IF S = {} THEN <<>>
  ELSE LET m == CHOOSE x \in S : \A y \in S : y <= x IN <<m>> \o Newest(S \ {m})

\* filter: 'all' (0) or a status; the page of the matching rows
fetchUserPostsFromDb(t, userId, filter, page, pageSize) ==
  LET found == Newest({id \in DOMAIN t : Matches(t[id], userId)
                                           /\ (filter = 0 \/ t[id].status = filter)})
      offset == (page - 1) * pageSize
  IN Settles(t, "ok", SubSeq(found, offset + 1,
                             IF offset + pageSize < Len(found) THEN offset + pageSize
                             ELSE Len(found)))

getPostByIdFromDb(t, postId, userId) ==
  Settles(t, "ok", IF postId \in DOMAIN t /\ Matches(t[postId], userId)
                   THEN <<postId>> ELSE <<>>)

\* an UPDATE ... WHERE id = $postId AND <Matches> RETURNING *, the row
\* becoming `row`; no row matched: the function throws
UpdateMatching(t, postId, userId, row) ==
  IF postId \in DOMAIN t /\ Matches(t[postId], userId)
  THEN Settles([t EXCEPT ![postId] = row], "ok", <<postId>>)
  ELSE Settles(t, "error", <<>>)

updatePostInDb(t, postId, userId, content) ==
  UpdateMatching(t, postId, userId,
                 IF postId \in DOMAIN t THEN [t[postId] EXCEPT !.post = content] ELSE content)

updatePostStatusInDb(t, postId, userId, status) ==
  [UpdateMatching(t, postId, userId,
                  IF postId \in DOMAIN t THEN [t[postId] EXCEPT !.status = status]
                  ELSE status)
     EXCEPT !.rows = <<>>]

updatePostLinkedInMetadata(t, postId, userId, linkedinPostId, linkedinPostUrl) ==
  UpdateMatching(t, postId, userId,
                 IF postId \in DOMAIN t
                 THEN [t[postId] EXCEPT !.linkedin_post_id = linkedinPostId,
                                        !.linkedin_post_url = linkedinPostUrl,
                                        !.status = 2, !.published_at = TRUE]
                 ELSE linkedinPostId)

\* WHERE id = $postId AND auth_user_id = $userId: deleted rows match too
softDeletePostInDb(t, postId, userId) ==
  IF postId \in DOMAIN t /\ t[postId].auth_user_id = userId
  THEN Settles([t EXCEPT ![postId].is_deleted = TRUE], "ok", <<>>)
  ELSE Settles(t, "error", <<>>)

insertDraftPostInDb(t, userId, postContent) ==
  Settles(Append(t, Row(userId, postContent, 1, FALSE)), "ok", <<Len(t) + 1>>)

\* everything but the table and the record of the last call
allButPosts == <<configured, op, pc, args, result, cur, requests, completions, ret, http,
                 responses, req, li, inv, ob>>

\* postIds callers pass: those of the rows, and one of no row
PostIds == 1..(MaxPosts + 1)

\* the call `name` of user userId for postId settled to s
Repo(name, userId, postId, s) ==
  /\ posts' = s.table
  /\ last' = [op |-> name, userId |-> userId, postId |-> postId, out |-> s.out,
              rows |-> s.rows]
  /\ UNCHANGED allButPosts

fetchUserPostsFromDb_run ==
  \E userId \in Users, filter \in 0..2, page \in 1..2, pageSize \in {1, 10} :
    Repo("fetchUserPostsFromDb", userId, 0,
         fetchUserPostsFromDb(posts, userId, filter, page, pageSize))

getPostByIdFromDb_run ==
  \E userId \in Users, postId \in PostIds :
    Repo("getPostByIdFromDb", userId, postId, getPostByIdFromDb(posts, postId, userId))

updatePostInDb_run ==
  \E userId \in Users, postId \in PostIds, content \in {"b"} :
    Repo("updatePostInDb", userId, postId, updatePostInDb(posts, postId, userId, content))

updatePostStatusInDb_run ==
  \E userId \in Users, postId \in PostIds, status \in {2} :
    Repo("updatePostStatusInDb", userId, postId,
         updatePostStatusInDb(posts, postId, userId, status))

updatePostLinkedInMetadata_run ==
  \E userId \in Users, postId \in PostIds :
    Repo("updatePostLinkedInMetadata", userId, postId,
         updatePostLinkedInMetadata(posts, postId, userId, <<"urn:li:share:7">>,
                                    <<"https://www.linkedin.com/feed/update/",
                                      "urn:li:share:7">>))

softDeletePostInDb_run ==
  \E userId \in Users, postId \in PostIds :
    Repo("softDeletePostInDb", userId, postId, softDeletePostInDb(posts, postId, userId))

insertDraftPostInDb_run ==
  /\ Len(posts) < MaxPosts
  /\ \E userId \in Users :
       Repo("insertDraftPostInDb", userId, 0, insertDraftPostInDb(posts, userId, "a"))

\* pool.query fails (the database is down): the call throws, nothing changes
QueryFails ==
  \E name \in {"fetchUserPostsFromDb", "getPostByIdFromDb", "updatePostInDb",
               "updatePostStatusInDb", "updatePostLinkedInMetadata",
               "softDeletePostInDb", "insertDraftPostInDb"},
     userId \in Users :
    Repo(name, userId, 0, Settles(posts, "error", <<>>))

RepositoryNext ==
  \/ fetchUserPostsFromDb_run
  \/ getPostByIdFromDb_run
  \/ updatePostInDb_run
  \/ updatePostStatusInDb_run
  \/ updatePostLinkedInMetadata_run
  \/ softDeletePostInDb_run
  \/ insertDraftPostInDb_run
  \/ QueryFails

RepositorySpec == Init /\ [][RepositoryNext]_vars

\* ------------------------------------------------------------------------
\* linkedinService: getLinkedInUserUrn, publishToLinkedIn;
\* linkedinController: publishLinkedInPost.  Messages are sequences of
\* strings, <<>> the missing or empty message.
\* ------------------------------------------------------------------------

\* what an axios call comes to: the HTTP status (0: no response arrived),
\* the datum read from a reply (userinfo's sub, the x-restli-id header), the
\* message member of an error body, and the message of the error axios throws
Http(status, datum, message, thrown) ==
  [status |-> status, datum |-> datum, message |-> message, thrown |-> thrown]

UserInfoOutcomes ==
  {Http(200, <<"abc">>, <<>>, <<>>), Http(200, <<>>, <<>>, <<>>),
   Http(401, <<>>, <<>>, <<"Request failed with status code 401">>),
   Http(500, <<>>, <<"down">>, <<"Request failed with status code 500">>),
   Http(0, <<>>, <<>>, <<"Network Error">>)}

PostOutcomes ==
  {Http(201, <<"urn:li:share:7">>, <<>>, <<>>), Http(201, <<>>, <<>>, <<>>),
   Http(0, <<>>, <<>>, <<"Network Error">>), Http(0, <<>>, <<>>, <<>>)}
  \cup {Http(s, <<>>, m, <<"Request failed">>) :
          s \in {401, 403, 422, 429, 500}, m \in {<<>>, <<"Duplicate post">>}}

\* a LinkedInPublishResult a call returned, or the error a call threw
Returned_(success, postId, postUrl, error) ==
  [out |-> "return", success |-> success, postId |-> postId, postUrl |-> postUrl,
   error |-> error]
Thrown_(error) ==
  [out |-> "throw", success |-> FALSE, postId |-> <<>>, postUrl |-> <<>>, error |-> error]

\* the URN (in postId) of the user the userinfo call o named, or the Error thrown
getLinkedInUserUrn(o) ==
  IF o.status = 200 /\ o.datum # <<>>
  THEN Returned_(TRUE, <<"urn:li:person:">> \o o.datum, <<>>, <<>>)
  ELSE IF o.status = 401
  THEN Thrown_(<<"LinkedIn access token is invalid or expired. Please sign in again.">>)
  ELSE Thrown_(<<"Failed to get LinkedIn user info: ">>
               \o (IF o.status = 200 THEN <<"Could not retrieve LinkedIn user ID">>
                   ELSE o.thrown))

\* a || b on messages
Or(a, b) == IF a # <<>> THEN a ELSE b

\* faulty variant: an error of a status the catch block does not name leaves
\* the function
publishToLinkedIn_catch_rethrows(e) ==
  IF e.status \in {401, 403, 422, 429}
  THEN Returned_(FALSE, <<>>, <<>>, <<"LinkedIn rejected the request">>)
  ELSE Thrown_(e.thrown)

\* the catch block of publishToLinkedIn on the error e
publishToLinkedIn_catch(e) ==
  Returned_(FALSE, <<>>, <<>>,
    CASE e.status = 401 ->
           <<"LinkedIn access token is invalid or expired. Please sign in again.">>
      [] e.status = 403 ->
           <<"You do not have permission to post to LinkedIn. Please check your app permissions.">>
      [] e.status = 422 ->
           Or(e.message, <<"LinkedIn rejected the post. It may be duplicate content.">>)
      [] e.status = 429 ->
           <<"LinkedIn rate limit exceeded. Please wait a moment and try again.">>
      [] OTHER -> Or(e.message, Or(e.thrown, <<"Failed to publish to LinkedIn">>)))

\* String.prototype.length: the token "x3000" stands for 3000 characters that
\* are not white space, any other token for one character
RECURSIVE Length(_)
Length(s) ==
  IF s = <<>> THEN 0 ELSE (IF Head(s) = "x3000" THEN 3000 ELSE 1) + Length(Tail(s))

\* the post_text field of a request body
PostTexts ==
  {Undefined, Num("1"), Str(<<" ">>), Str(<<" ", "p", " ">>), Str(<<"x3000">>),
   Str(<<"x3000", " ">>)}

publishLinkedInPost_handle ==
  /\ pc = "idle"
  /\ op' = "publishLinkedInPost"
  /\ \E post_text \in PostTexts, linkedin_token \in {Undefined, Num("1"), Str(<<"tok">>)},
        generated_post_id \in 0..(Len(posts) + 1), userId \in Users \cup {""} :
       /\ req' = [NoReq EXCEPT !.post_text = post_text, !.linkedin_token = linkedin_token,
                               !.generated_post_id = generated_post_id, !.userId = userId]
       /\ IF BlankString(post_text) THEN Answer(400, FALSE)
          ELSE IF ~Truthy(linkedin_token) \/ linkedin_token.t # "string"
          THEN Answer(400, FALSE)
          ELSE IF userId = "" THEN Answer(401, FALSE)
          ELSE IF Length(post_text.x) > 3000 THEN Answer(400, FALSE)
          ELSE /\ pc' = "userinfo"
               /\ UNCHANGED <<http, responses>>
  /\ UNCHANGED <<configured, args, result, cur, requests, completions, ret>>
  /\ UNCHANGED backstage

\* publishToLinkedIn, step 1: axios.get /v2/userinfo settles
getLinkedInUserUrn_settle ==
  /\ pc = "userinfo"
  /\ \E o \in UserInfoOutcomes :
       /\ li' = Append(li, [url |-> "/v2/userinfo", author |-> <<>>, commentary |-> <<>>,
                            reply |-> o])
       /\ IF getLinkedInUserUrn(o).out = "return"
          THEN /\ pc' = "posts"
               /\ req' = [req EXCEPT !.publishResult = getLinkedInUserUrn(o)]
          ELSE /\ pc' = "published"
               /\ req' = [req EXCEPT !.publishResult =
                            publishToLinkedIn_catch(
                              Http(0, <<>>, <<>>, getLinkedInUserUrn(o).error))]
  /\ UNCHANGED <<configured, op, args, result, cur, requests, completions, ret, http,
                 responses>>
  /\ UNCHANGED <<posts, last, inv, ob>>

\* publishToLinkedIn, step 2: axios.post /rest/posts settles
publishToLinkedIn_settle ==
  /\ pc = "posts"
  /\ \E o \in PostOutcomes :
       /\ li' = Append(li, [url |-> "/rest/posts", author |-> req.publishResult.postId,
                            commentary |-> Trim(req.post_text.x), reply |-> o])
       /\ req' = [req EXCEPT !.publishResult =
                    IF o.status = 201
                    THEN Returned_(TRUE, o.datum,
                                   IF o.datum # <<>>
                                   THEN <<"https://www.linkedin.com/feed/update/">> \o o.datum
                                   ELSE <<>>,
                                   <<>>)
                    ELSE publishToLinkedIn_catch(o)]
  /\ pc' = "published"
  /\ UNCHANGED <<configured, op, args, result, cur, requests, completions, ret, http,
                 responses>>
  /\ UNCHANGED <<posts, last, inv, ob>>

\* the table after the handler's write for the publishResult r: the metadata
\* when LinkedIn named the post, else the status alone; none without a
\* generated_post_id
Persisted(t, r, generated_post_id, userId) ==
  IF generated_post_id # 0 /\ r.postId # <<>>
  THEN updatePostLinkedInMetadata(t, generated_post_id, userId, r.postId, r.postUrl).table
  ELSE IF generated_post_id # 0
  THEN updatePostStatusInDb(t, generated_post_id, userId, 2).table
  ELSE t

\* faulty variant: the write is made before publishResult.success is read
publishLinkedInPost_respond_writesFirst ==
  /\ pc = "published"
  /\ posts' = Persisted(posts, req.publishResult, req.generated_post_id, req.userId)
  /\ IF req.publishResult.success THEN Answer(200, TRUE) ELSE Answer(400, FALSE)
  /\ UNCHANGED <<configured, op, args, result, cur, requests, completions, ret, req>>
  /\ UNCHANGED <<li, last, inv, ob>>

\* publishToLinkedIn has settled: the rest of the handler.  A write that
\* throws (no matching row, or the database is down) is logged and dropped.
publishLinkedInPost_respond ==
  /\ pc = "published"
  /\ IF req.publishResult.out = "throw"
     THEN Answer(500, FALSE) /\ posts' = posts
     ELSE IF ~req.publishResult.success
     THEN Answer(400, FALSE) /\ posts' = posts
     ELSE /\ \E up \in BOOLEAN :
               posts' = IF up THEN Persisted(posts, req.publishResult,
                                             req.generated_post_id, req.userId)
                        ELSE posts
          /\ Answer(200, TRUE)
  /\ UNCHANGED <<configured, op, args, result, cur, requests, completions, ret, req>>
  /\ UNCHANGED <<li, last, inv, ob>>

\* ------------------------------------------------------------------------
\* One request at a time: the services and the handlers of the controller
\* ------------------------------------------------------------------------

Next ==
  \/ generateHooksFromTopic_call
  \/ generateHooksFromTopic_resume
  \/ recommendIntention_call
  \/ recommendIntention_resume
  \/ refinePostVoice_call
  \/ refinePostVoice_resume
  \/ refinePostLogic_call
  \/ refinePostLogic_resume
  \/ generatePostFromHook_call
  \/ generatePostFromHook_4A
  \/ generatePostFromHook_4B
  \/ generatePostFromHook_4C
  \/ regenerateSection_call
  \/ regeneratePostSection_handle
  \/ regenerateSection_raw
  \/ regenerateSection_polish
  \/ regeneratePostSection_respond
  \/ generateHooks_handle
  \/ generateHooks_respond
  \/ generatePost_handle
  \/ generatePost_respond
  \/ recommendContentIntention_handle
  \/ recommendContentIntention_respond
  \/ getLinkedInStatus_handle
  \/ disconnectLinkedIn_handle
  \/ getSuggestion_handle
  \/ publishLinkedInPost_handle
  \/ getLinkedInUserUrn_settle
  \/ publishToLinkedIn_settle
  \/ publishLinkedInPost_respond

Spec == Init /\ [][Next]_vars

\* a request that has started goes on: a completion, LinkedIn call or query in
\* flight settles and the code awaiting it runs on to its next await or to its
\* end
Continues == pc # "idle" /\ Next

\* every request in flight settles in the end
LiveSpec == Init /\ [][Next]_vars /\ WF_vars(Continues)

\* ------------------------------------------------------------------------
\* onboardingController.saveUserAnswers over public.m_user_answers, several
\* requests in flight.  ob.rows holds the device_id of every row; ob.req[p]
\* is request p: where it stands, its device and body, its answer and why.
\* The repository does not hold the table's definition: whether device_id
\* is unique (ob.unique) is settled by the first insert it matters to.
\* ------------------------------------------------------------------------

Devices == {"d1", "d2"}

\* request p has answered: res.status(status).json(...)
Answered(p, status, why) ==
  ob' = [ob EXCEPT !.req[p].pc = "done", !.req[p].status = status, !.req[p].why = why]

\* a request arrives; it is rejected, or the SELECT is sent
saveUserAnswers_handle(p) ==
  /\ ob.req[p].pc = "idle"
  /\ \E deviceId \in Devices \cup {""},
        answers \in {<<Str(<<"a">>), Str(<<"b">>), Str(<<"c">>)>>,
                     <<Str(<<"a">>), Str(<<" ">>), Str(<<"c">>)>>,
                     <<Str(<<"a">>), Str(<<"b">>), Undefined>>},
        answer_4 \in {Undefined, Num("1")} :
       LET arrived == [ob EXCEPT !.req[p].deviceId = deviceId, !.req[p].answers = answers,
                                 !.req[p].answer_4 = answer_4]
       IN  ob' = IF deviceId = ""
                 THEN [arrived EXCEPT !.req[p].pc = "done", !.req[p].status = 401,
                                      !.req[p].why = "unauthenticated"]
                 ELSE IF \E i \in 1..3 : BlankString(answers[i])
                 THEN [arrived EXCEPT !.req[p].pc = "done", !.req[p].status = 400,
                                      !.req[p].why = "invalid"]
                 ELSE [arrived EXCEPT !.req[p].pc = "fetching"]
  /\ UNCHANGED <<configured, op, pc, args, result, cur, requests, completions, ret, http,
                 responses, req, li, posts, last, inv>>

\* fetchUserAnswersFromDb settles: 409 if a row of the device exists, else
\* the arguments of the insert are built and the INSERT is sent
fetchUserAnswersFromDb_settle(p) ==
  /\ ob.req[p].pc = "fetching"
  /\ \E up \in BOOLEAN :
       IF ~up THEN Answered(p, 500, "query failed")
       ELSE IF Includes(ob.rows, ob.req[p].deviceId) THEN Answered(p, 409, "exists")
       ELSE IF TrimThrows(ob.req[p].answer_4) THEN Answered(p, 500, "trim threw")
       ELSE ob' = [ob EXCEPT !.req[p].pc = "saving"]
  /\ UNCHANGED <<configured, op, pc, args, result, cur, requests, completions, ret, http,
                 responses, req, li, posts, last, inv>>

\* saveUserAnswersToDb settles: the row is inserted and the answer is 201,
\* or the INSERT failed and the answer is 500
saveUserAnswersToDb_settle(p) ==
  /\ ob.req[p].pc = "saving"
  /\ \E up \in BOOLEAN,
        unique \in (IF ob.unique = "unknown" /\ Includes(ob.rows, ob.req[p].deviceId)
                    THEN {"yes", "no"} ELSE {ob.unique}) :
       IF ~up THEN Answered(p, 500, "query failed")
       ELSE IF unique = "yes" /\ Includes(ob.rows, ob.req[p].deviceId)
       THEN ob' = [ob EXCEPT !.unique = unique, !.req[p].pc = "done",
                             !.req[p].status = 500, !.req[p].why = "duplicate key"]
       ELSE ob' = [ob EXCEPT !.unique = unique, !.rows = Append(@, ob.req[p].deviceId),
                             !.req[p].pc = "done", !.req[p].status = 201,
                             !.req[p].why = "saved"]
  /\ UNCHANGED <<configured, op, pc, args, result, cur, requests, completions, ret, http,
                 responses, req, li, posts, last, inv>>

OnboardingNext ==
  \E p \in Invocations :
    \/ saveUserAnswers_handle(p)
    \/ fetchUserAnswersFromDb_settle(p)
    \/ saveUserAnswersToDb_settle(p)

OnboardingSpec == Init /\ [][OnboardingNext]_vars

\* ------------------------------------------------------------------------
\* Properties
\* ------------------------------------------------------------------------

Done(o) == op = o /\ pc = "done"

\* the text of the first completion of this invocation, and whether it failed
FirstFailed == Len(completions) >= 1 /\ completions[1].status = "error"
FirstText   == completions[1].value.x

InCatalog(v) == v.t = "string" /\ \E i \in 1..9 : frameworks[i] = v.x

\* C1: whatever the backend answered (a label, garbage, nothing, an error),
\* recommendIntention returns one of the nine catalog labels.
C1_RecommendInCatalog ==
  Done("recommendIntention") => ret.status = "ok" /\ InCatalog(ret.value)

C1_Witness ==
  /\ Done("recommendIntention")
  /\ ~FirstFailed
  /\ ~InCatalog(Str(FirstText))
  /\ FirstText # <<>>
  /\ InCatalog(ret.value)

\* C2: recommendIntention never fails its caller: when the completion call
\* failed, or its trimmed text is not exactly a catalog entry, the result is
\* exactly the default framework "Problem -> Stakes -> Solution".
C2_RecommendFallsBack ==
  (Done("recommendIntention") /\ (FirstFailed \/ ~InCatalog(Str(Trim(FirstText)))))
    => ret = Return(Str(<<"Problem", " ", "->", " ", "Stakes", " ", "->", " ", "Solution">>))

C2_Witness ==
  /\ Done("recommendIntention")
  /\ FirstFailed
  /\ ErrorKind(completions[1].error) = "EmptyCompletion"
  /\ ret.status = "ok"

\* the text is JSON for an object that has all five section keys
HasFiveKeys(text) ==
  LET p == JSONParse(text)
  IN p.ok /\ p.v.t = "object"
       /\ \A i \in 1..5 : \E j \in 1..Len(p.v.k) : p.v.k[j] = <<SectionKeys[i]>>

\* C3: if the refinement completion fails, or its response is not JSON
\* containing all five section keys, refinePostVoice and refinePostLogic
\* return exactly the sections they were given and do not fail.
C3_RefineDegradesToInput ==
  ((Done("refinePostVoice") \/ Done("refinePostLogic"))
      /\ (FirstFailed \/ ~HasFiveKeys(FirstText)))
    => ret = Return(args.sections)

C3_Witness ==
  /\ Done("refinePostVoice")
  /\ ~FirstFailed
  /\ JSONParse(FirstText).ok
  /\ ~HasFiveKeys(FirstText)
  /\ ret.value = args.sections

\* a value that is there and is not empty
Populated(v) ==
  /\ v.t \notin {"undefined", "null"}
  /\ v # Str(<<>>) /\ v # Num("0") /\ v # Bool("false")

\* a value that has exactly the five section keys, each with a non-empty value
CompleteSections(v) ==
  /\ v.t = "object"
  /\ v.k = << <<"intro">>, <<"main_insight">>, <<"supporting_detail">>,
              <<"shift_takeaway">>, <<"cta">> >>
  /\ \A i \in 1..5 : Populated(v.a[i])

\* a complete section set together with a design idea
CompletePost(v) ==
  /\ v.t = "object"
  /\ v.k = << <<"sections">>, <<"design_idea">> >>
  /\ CompleteSections(v.a[1])
  /\ Populated(v.a[2])

RequiredKeys == <<"intro", "main_insight", "supporting_detail", "shift_takeaway", "cta",
                  "design_idea">>

\* the text is JSON for an object in which a required key is absent or empty
LacksRequiredKey(text) ==
  LET p == JSONParse(text)
  IN p.ok /\ p.v.t = "object"
       /\ \E i \in 1..6 :
            \/ \A j \in 1..Len(p.v.k) : p.v.k[j] # <<RequiredKeys[i]>>
            \/ Prop(p.v, RequiredKeys[i]) = Str(<<>>)

\* C5: when the base-generation response is a JSON object that lacks one of
\* the six required keys (or has it empty), generatePostFromHook fails with
\* IncompleteGeneration and returns no sections.
C5_MissingKeyIsIncomplete ==
  (op = "generatePostFromHook" /\ Len(completions) >= 1 /\ ~FirstFailed
      /\ LacksRequiredKey(FirstText))
    => /\ pc = "done"
       /\ ret.status = "error"
       /\ ErrorKind(ret.error) = "IncompleteGeneration"
       /\ ret.value = Undefined

C5_Witness ==
  /\ Done("generatePostFromHook")
  /\ ~FirstFailed
  /\ LacksRequiredKey(FirstText)
  /\ Prop(JSONParse(FirstText).v, "cta") = Undefined
  /\ Prop(JSONParse(FirstText).v, "intro") # Undefined
  /\ ErrorKind(ret.error) = "IncompleteGeneration"

\* C6 as stated: regenerateSection called with a key that is not one of the
\* five section keys fails, and no completion request is issued for it.
C6_InvalidKeyRejectedByCore ==
  (op = "regenerateSection" /\ \A i \in 1..5 : args.sectionKey # Str(<<SectionKeys[i]>>))
    => requests = <<>> /\ ret.status # "ok"

\* C7 as stated: generateHooksFromTopic returns between 3 and 5 non-empty
\* strings, or fails.
C7_HooksThreeToFive ==
  Done("generateHooksFromTopic")
    => \/ ret.status = "error"
       \/ /\ ret.value.t = "array"
          /\ Len(ret.value.a) \in 3..5
          /\ \A i \in 1..Len(ret.value.a) :
               ret.value.a[i].t = "string" /\ ret.value.a[i].x # <<>>

\* C8: when the completion text for the hooks prompt is not parseable JSON,
\* or parses to a value that is not an array, generateHooksFromTopic fails
\* with MalformedGenerationOutput and returns no hooks.
C8_HooksMalformed ==
  (Done("generateHooksFromTopic") /\ ~FirstFailed
      /\ (~JSONParse(FirstText).ok \/ JSONParse(FirstText).v.t # "array"))
    => /\ ret.status = "error"
       /\ ErrorKind(ret.error) = "MalformedGenerationOutput"
       /\ ret.value = Undefined

C8_Witness ==
  /\ Done("generateHooksFromTopic")
  /\ ~FirstFailed
  /\ JSONParse(FirstText).ok
  /\ JSONParse(FirstText).v.t = "object"
  /\ ErrorKind(ret.error) = "MalformedGenerationOutput"

\* the text is JSON for an object with a non-empty value for each required key
HasAllRequired(text) ==
  LET p == JSONParse(text)
  IN p.ok /\ p.v.t = "object" /\ \A i \in 1..6 : Populated(Prop(p.v, RequiredKeys[i]))

C10_PrimaryFailurePropagates ==
  (op \in {"generateHooksFromTopic", "generatePostFromHook", "regenerateSection",
           "regeneratePostSection"} /\ FirstFailed)
    => /\ pc \in {"done", "respond"}
       /\ ret.status = "error"
       /\ ret.value = Undefined
       /\ ErrorKind(ret.error) = ErrorKind(completions[1].error)
       /\ Len(completions) = 1

C10_Witness ==
  /\ Done("regenerateSection")
  /\ FirstFailed
  /\ ErrorKind(completions[1].error) = "ProviderUnavailable"
  /\ configured
  /\ ret.status = "error"

\* the five section values of the object a text is JSON for
ParsedSections(text) ==
  Obj(<< <<"intro">>, <<"main_insight">>, <<"supporting_detail">>,
         <<"shift_takeaway">>, <<"cta">> >>,
      [i \in 1..5 |-> Prop(JSONParse(text).v, SectionKeys[i])])

\* the completion c carries a usable refinement: all five sections, non-empty
Refines(c) ==
  /\ c.status = "ok"
  /\ JSONParse(c.value.x).ok
  /\ JSONParse(c.value.x).v.t = "object"
  /\ \A i \in 1..5 : Populated(Prop(JSONParse(c.value.x).v, SectionKeys[i]))

\* what a refinement stage given `input` hands on after completion c
RefinedFrom(input, c) == IF Refines(c) THEN ParsedSections(c.value.x) ELSE input

\* C11: in the full pipeline the requests go out in the order base, voice,
\* logic; the logic request is issued only after the voice request was
\* resolved, and the sections it carries are exactly those voice refinement
\* returned (the refined ones when voice refinement succeeded).
C11_VoiceBeforeLogic ==
  op = "generatePostFromHook"
    => /\ Len(requests) <= 3
       /\ \A i \in 1..Len(requests) : requests[i].stage = <<"base", "voice", "logic">>[i]
       /\ Len(requests) >= 2 => Len(completions) >= 1
       /\ Len(requests) = 3
            => /\ Len(completions) >= 2
               /\ requests[3].payload = RefinedFrom(requests[2].payload, completions[2])

C11_Witness ==
  /\ op = "generatePostFromHook"
  /\ Len(requests) = 3
  /\ Refines(completions[2])
  /\ requests[3].payload # requests[2].payload
  /\ requests[3].payload = ParsedSections(completions[2].value.x)

\* C12: in regenerateSection, once the raw section text was generated, a
\* failure of the polishing call does not fail the operation: the result is
\* the unpolished raw text.
C12_PolishFailureKeepsRaw ==
  (op \in {"regenerateSection", "regeneratePostSection"} /\ Len(completions) = 2
      /\ completions[1].status = "ok" /\ completions[2].status = "error")
    => ret = Return(Str(Trim(completions[1].value.x)))

C12_Witness ==
  /\ Done("regenerateSection")
  /\ Len(completions) = 2
  /\ completions[1].status = "ok"
  /\ completions[1].value.x # <<>>
  /\ completions[2].status = "error"
  /\ ret.value = completions[1].value

\* regenerateSection was called, directly or by its handler, with one of the
\* five section keys
RegeneratingValidKey ==
  /\ op \in {"regenerateSection", "regeneratePostSection"}
  /\ \E i \in 1..5 : args.sectionKey = Str(<<SectionKeys[i]>>)

\* C13 as stated: whenever regenerateSection returns successfully for a
\* valid key and a complete section set, the returned value is one non-empty
\* string, whatever the two backend responses were (blank ones included).
C13_RegeneratedNonEmpty ==
  (RegeneratingValidKey /\ ret.status = "ok")
    => ret.value.t = "string" /\ ret.value.x # <<>>

\* C14 as stated: whenever regenerateSection returns successfully, the
\* returned string differs from the current value of the regenerated section.
C14_RegeneratedDiffers ==
  (RegeneratingValidKey /\ ret.status = "ok")
    => ret.value # Prop(args.sections, args.sectionKey.x[1])

Count(stage) == Cardinality({i \in 1..Len(requests) : requests[i].stage = stage})

Stages == {"hooks", "recommend", "base", "voice", "logic", "raw", "polish"}

\* C16 as stated: hook generation, framework recommendation, base section
\* generation, voice refinement, logic refinement and section regeneration
\* each issue at most one completion request per invocation.
C16_Original ==
  /\ \A stage \in {"hooks", "recommend", "base", "voice", "logic"} : Count(stage) <= 1
  /\ op \in {"regenerateSection", "regeneratePostSection"} => Len(requests) <= 1

\* C16 amended: hook generation, framework recommendation, base section
\* generation, voice refinement and logic refinement each issue at most one
\* completion request per invocation; section regeneration issues at most
\* two, one for the raw section and one for its polishing pass.
C16_OneRequestPerStage ==
  /\ \A stage \in Stages : Count(stage) <= 1
  /\ \A i \in 1..Len(requests) : requests[i].stage \in Stages
  /\ op \in {"generateHooksFromTopic", "recommendIntention", "refinePostVoice",
             "refinePostLogic"} => Len(requests) <= 1
  /\ op \in {"regenerateSection", "regeneratePostSection"}
       => /\ Len(requests) <= 2
          /\ \A i \in 1..Len(requests) : requests[i].stage = <<"raw", "polish">>[i]

C16_Witness ==
  /\ Done("regenerateSection")
  /\ Len(requests) = 2
  /\ Count("raw") = 1
  /\ Count("polish") = 1

C18_UnconfiguredSendsNothing ==
  ~configured
    => /\ requests = <<>>
       /\ \A i \in 1..Len(completions) :
            /\ completions[i].status = "error"
            /\ completions[i].error[Len(completions[i].error)]
                 = "OpenAI API key not configured"
            /\ ErrorKind(completions[i].error) = "ProviderUnavailable"

C18_Witness ==
  /\ ~configured
  /\ Done("generateHooksFromTopic")
  /\ Len(completions) = 1
  /\ requests = <<>>
  /\ ErrorKind(ret.error) = "ProviderUnavailable"

\* C19 as stated: generateChatCompletion never returns a string with no
\* usable text; a response without choices, without content, with empty or
\* with blank content makes it fail with EmptyCompletion.
C19_NoEmptyCompletionReturned ==
  \A i \in 1..Len(completions) :
    completions[i].status = "ok"
      => completions[i].value.t = "string" /\ completions[i].value.x # <<>>

\* the temperature each stage passes to generateChatCompletion
StageTemperature(stage) ==
  CASE stage = "voice"  -> "0.7"
    [] stage = "polish" -> "0.6"
    [] OTHER            -> "0.5"

\* the model each stage passes to generateChatCompletion
StageModel(stage) ==
  IF stage \in {"voice", "logic", "polish"} THEN "gpt-5.1" ELSE "gpt-5-2025-08-07"

\* C20 as stated: the request sent to the provider carries the model and the
\* temperature the calling stage passed (0.7 for voice refinement, 0.5 for
\* logic refinement, 0.6 for the single-section polish).
C20_RequestCarriesTemperature ==
  \A i \in 1..Len(requests) :
    /\ requests[i].model = StageModel(requests[i].stage)
    /\ requests[i].temperature = StageTemperature(requests[i].stage)

\* what the invocation with activation f returns, computed from nothing but
\* its own arguments and the completions of its own requests
OwnResult(f) ==
  CASE f.op = "generateHooksFromTopic" -> generateHooksFromTopic(f.completions[1])
    [] f.op = "recommendIntention" -> recommendIntention(f.completions[1])
    [] f.op = "generatePostFromHook" ->
         LET base == generatePostFromHook_base(f.completions[1])
         IN IF base.status = "error" THEN Rethrow("Failed to generate post", base)
            ELSE Return(PostResult(
                   refinePostLogic(
                     refinePostVoice(SectionsOf(base.value), f.completions[2]).value,
                     f.completions[3]).value,
                   base.value))
    [] f.op = "regenerateSection" ->
         Rethrow("Failed to regenerate section",
                 IF f.completions[1].status = "error" THEN f.completions[1]
                 ELSE refineSingleSection(Trim(f.completions[1].value.x), f.completions[2]))
    [] OTHER -> Pending

\* C21: however concurrently running pipeline invocations interleave, the
\* result of each is the function of its own arguments and of the responses
\* to its own completion requests; an invocation that has not settled has no
\* result, and one that was not called is untouched by the others.
C21_InvocationsIndependent ==
  \A p \in Invocations :
    /\ inv[p].pc = "idle" => inv[p] = IdleFrame
    /\ inv[p].pc \notin {"idle", "done"} => inv[p].ret = Pending
    /\ inv[p].pc = "done" => inv[p].ret = OwnResult(inv[p])
    /\ Len(inv[p].requests) <= Len(inv[p].completions) + 1

\* a full pipeline run settled with refined sections while a regeneration
\* called meanwhile is suspended at its polishing request
C21_Witness ==
  /\ inv[1].op = "generatePostFromHook" /\ inv[1].pc = "done"
  /\ inv[1].ret.status = "ok"
  /\ Len(inv[1].completions) = 3
  /\ Prop(inv[1].ret.value, "sections") # SectionsOf(inv[1].result)
  /\ inv[2].op = "regenerateSection" /\ inv[2].pc = "polish"
  /\ Len(inv[2].requests) = 2
  /\ inv[2].cur # inv[1].cur

\* a body field that is missing, not a string, or blank after trimming
BadText(v) == v.t # "string" \/ \A i \in 1..Len(v.x) : v.x[i] \in {" ", "\n"}

\* the body the handler received lacks a usable required field
InvalidBody ==
  \/ op = "generateHooks" /\ BadText(req.topic)
  \/ op \in {"generatePost", "recommendContentIntention"}
       /\ (BadText(req.hook) \/ BadText(req.topic))
  \/ op = "regeneratePostSection"
       /\ \/ BadText(req.hook) \/ BadText(req.topic)
          \/ req.section \notin {Str(<<"intro">>), Str(<<"main_insight">>),
                                  Str(<<"supporting_detail">>), Str(<<"shift_takeaway">>),
                                  Str(<<"cta">>)}
          \/ req.current_sections.t # "object"

CatalogLabels == {frameworks[i] : i \in 1..9}

\* the request of the base generation carries a structural instruction
BaseRequestInstructs ==
  /\ requests[1].stage = "base"
  /\ requests[1].payload.t = "string"
  /\ Len(requests[1].payload.x) = Len(args.intention.x) + 3
  /\ SubSeq(requests[1].payload.x, 2, Len(args.intention.x) + 1) = args.intention.x
  /\ requests[1].payload.x[Len(requests[1].payload.x)] # ""

\* C24: the labels recommendIntention can return are exactly the keys of
\* frameworkInstructions: the two sets are equal, the default is one of them,
\* whatever recommendIntention returns has an instruction, and section
\* generation called with a catalog label puts that label's instruction
\* into its prompt.
C24_CatalogIsInstructionKeys ==
  /\ CatalogLabels = DOMAIN frameworkInstructions
  /\ Cardinality(CatalogLabels) = 9
  /\ DefaultFramework \in DOMAIN frameworkInstructions
  /\ Done("recommendIntention") => ret.value.x \in DOMAIN frameworkInstructions
  /\ (op \in {"generatePostFromHook", "generatePost"} /\ Len(requests) >= 1
        /\ args.intention.t = "string" /\ args.intention.x \in CatalogLabels)
       => BaseRequestInstructs

C24_Witness ==
  /\ op = "generatePost"
  /\ req.intention.x # args.intention.x
  /\ args.intention.x = <<"List", " ", "Format", " ", "(3-5", " ", "punchy", " ", "points)">>
  /\ Len(requests) = 3
  /\ BaseRequestInstructs

\* the ids a repository call returned
Returned(call) == {call.rows[i] : i \in 1..Len(call.rows)}

\* the calls that change a stored post other than by deleting it
Updates == {"updatePostInDb", "updatePostStatusInDb", "updatePostLinkedInMetadata"}

\* C27: in every repository call, a row that was soft-deleted before the call
\* is not among the rows the call returns, is the same row after the call
\* (content, status, LinkedIn metadata and is_deleted), and an update naming
\* it fails; no row ever leaves the table.
C27_DeletedPostsUntouched ==
  [][ /\ Len(posts') >= Len(posts)
      /\ \A id \in DOMAIN posts :
           posts[id].is_deleted =>
             /\ posts'[id] = posts[id]
             /\ id \notin Returned(last')
             /\ (last'.op \in Updates /\ last'.postId = id) => last'.out = "error" ]_vars

\* C27 witness: the owner deleted their draft (row 1, a draft at the start)
\* and then tried to publish it: the update failed and the row still is the
\* deleted draft.
C27_Witness ==
  /\ last.op = "updatePostLinkedInMetadata"
  /\ last.postId = 1
  /\ last.userId = posts[1].auth_user_id
  /\ last.out = "error"
  /\ posts[1] = Row("u1", "a", 1, TRUE)

\* C28: in every repository call of user u, a row of another user is not
\* among the rows returned, is the same row after the call, and a row the call
\* adds belongs to u.
C28_OnlyOwnRows ==
  [][ /\ \A id \in DOMAIN posts :
           posts[id].auth_user_id # last'.userId =>
             /\ id \in DOMAIN posts'
             /\ posts'[id] = posts[id]
             /\ id \notin Returned(last')
      /\ \A id \in DOMAIN posts' \ DOMAIN posts :
           posts'[id].auth_user_id = last'.userId
      /\ \A id \in Returned(last') : posts'[id].auth_user_id = last'.userId ]_vars

\* C28 witness: u2 has a live draft (row 3), u1 has asked to change it and to
\* list posts at other times; here u1's update of it failed and it is intact.
C28_Witness ==
  /\ Len(posts) = 3
  /\ posts[3] = Row("u2", "a", 1, FALSE)
  /\ last.op = "updatePostInDb"
  /\ last.userId = "u1"
  /\ last.postId = 3
  /\ last.out = "error"

\* the handlers of the LinkedIn controller
ControllerHandlers ==
  Handlers \cup {"publishLinkedInPost", "getLinkedInStatus", "disconnectLinkedIn",
                 "getSuggestion"}

\* C23: a handler of the LinkedIn controller has sent no response while it
\* runs and exactly one when it has returned, on every path; when the core
\* threw, that one response is 500 with success=false, and 200 goes with
\* success=true only.
C23_OneResponsePerRequest ==
  /\ Len(responses) <= 1
  /\ op \in ControllerHandlers =>
       /\ pc = "done" <=> Len(responses) = 1
       /\ Len(responses) = 1 => responses[1].success = (responses[1].status = 200)
  /\ (op \in Handlers /\ pc = "done" /\ ret.status = "error") =>
       responses = <<Response(500, FALSE)>>
  /\ (op \in Handlers /\ pc = "done" /\ ret.status = "ok") =>
       responses = <<Response(200, TRUE)>>

\* C23 witness: generatePost passed validation, its core sent the base
\* request and threw, and the handler has answered once, with 500.
C23_Witness ==
  /\ op = "generatePost"
  /\ pc = "done"
  /\ ~BlankString(req.hook)
  /\ Len(requests) = 1
  /\ ret.status = "error"
  /\ responses = <<Response(500, FALSE)>>

\* the calls made to LinkedIn's /rest/posts
PostCalls == {i \in 1..Len(li) : li[i].url = "/rest/posts"}

\* C25: while publishLinkedInPost handles a request the posts table differs
\* from the table before the request only if publishToLinkedIn returned
\* success (the /rest/posts call was answered 201) and the request is answered
\* 200; then it differs in the row generated_post_id alone, which belongs to
\* the caller, is not deleted and has status 2.  A request answered otherwise
\* leaves the table as it was.
C25_PersistOnlyAfterPublish ==
  (posts # InitialPosts) =>
    /\ Done("publishLinkedInPost")
    /\ responses = <<Response(200, TRUE)>>
    /\ req.publishResult.success
    /\ \E i \in PostCalls : li[i].reply.status = 201
    /\ req.generated_post_id \in DOMAIN InitialPosts
    /\ \A id \in DOMAIN posts : id # req.generated_post_id => posts[id] = InitialPosts[id]
    /\ posts[req.generated_post_id].status = 2
    /\ posts[req.generated_post_id].auth_user_id = req.userId
    /\ (posts[req.generated_post_id].linkedin_post_id # <<>>) =>
         posts[req.generated_post_id].linkedin_post_id = req.publishResult.postId

\* C25 witness: LinkedIn accepted the post without naming it, and the handler
\* has marked the caller's draft published by its status alone.
C25_Witness ==
  /\ Done("publishLinkedInPost")
  /\ req.publishResult.success
  /\ req.publishResult.postId = <<>>
  /\ posts[1].status = 2
  /\ ~posts[1].published_at
  /\ InitialPosts[1].status = 1

\* C26: publishToLinkedIn settles by returning: whenever a LinkedIn call
\* failed the result has success=false and a message, a result with success
\* has no error, and /rest/posts is called at most once, after a userinfo call
\* that named the user, as that user and with the trimmed post text.
C26_PublishNeverThrows ==
  (op = "publishLinkedInPost" /\ pc \in {"published", "done"} /\ li # <<>>) =>
    /\ req.publishResult.out = "return"
    /\ req.publishResult.success = (li[Len(li)].reply.status = 201)
    /\ req.publishResult.success = (req.publishResult.error = <<>>)
    /\ \A i \in PostCalls :
         /\ i = 2
         /\ li[1].url = "/v2/userinfo"
         /\ li[1].reply.status = 200
         /\ li[1].reply.datum # <<>>
         /\ li[i].author = <<"urn:li:person:">> \o li[1].reply.datum
         /\ li[i].commentary = Trim(req.post_text.x)
    /\ Len(li) <= 2

\* C26 witness: the user was looked up, the publish request met a server
\* error without a message in its body, and publishToLinkedIn returned the
\* failure with axios's message.
C26_Witness ==
  /\ op = "publishLinkedInPost"
  /\ pc = "published"
  /\ Len(li) = 2
  /\ li[2].reply.status = 500
  /\ li[2].reply.message = <<>>
  /\ req.publishResult = Returned_(FALSE, <<>>, <<>>, <<"Request failed">>)

\* the rows of device d
RowsOf(d) == {i \in 1..Len(ob.rows) : ob.rows[i] = d}

\* request q got as far as the database and met no failure of its own: its
\* body was valid, its queries were answered, answer_4 could be trimmed
Competes(q) ==
  /\ ob.req[q].pc = "done"
  /\ ob.req[q].why \notin {"unauthenticated", "invalid", "query failed", "trim threw"}

\* C29: whatever the interleaving of saveUserAnswers requests, a device has
\* at most one answers row, and when a request of a device was answered 201
\* every other request of that device that reached the database is answered
\* 409.
C29_AtMostOneRowPerDevice ==
  /\ \A d \in Devices : Cardinality(RowsOf(d)) <= 1
  /\ \A p, q \in Invocations :
       (p # q /\ ob.req[p].pc = "done" /\ ob.req[p].status = 201 /\ Competes(q)
          /\ ob.req[q].deviceId = ob.req[p].deviceId)
         => ob.req[q].status = 409

\* the pipeline services, and the handlers that call them
PipelineOps ==
  Handlers \cup {"generateHooksFromTopic", "recommendIntention", "generatePostFromHook",
                 "regenerateSection"}

\* the completion requests an invocation may issue
Budget ==
  CASE op \in {"generateHooksFromTopic", "generateHooks"} -> 1
    [] op \in {"recommendIntention", "recommendContentIntention"} -> 1
    [] op \in {"generatePostFromHook", "generatePost"} -> 3
    [] op \in {"regenerateSection", "regeneratePostSection"} -> 2
    [] OTHER -> 0

\* a pipeline service is running
Running == op \in PipelineOps /\ pc \notin {"idle", "done"}

\* the invocation is over, with a result or with an error
Over == op \in PipelineOps /\ pc = "done" /\ ret.status \in {"ok", "error"}

\* C30: when every request in flight settles, an invocation of
\* generateHooksFromTopic, recommendIntention, generatePostFromHook or
\* regenerateSection (direct or through its handler) that is running
\* eventually is over with a result or an error; at every moment it has
\* issued at most 1, 1, 3 and 2 completion requests, no two of them for the
\* same stage, and (with a provider credential, without which none is sent)
\* at most one of them is unanswered.
C30_Terminates ==
  /\ [](op \in PipelineOps =>
         /\ Len(requests) <= Budget
         /\ \A i, j \in 1..Len(requests) : i # j => requests[i].stage # requests[j].stage
         /\ configured => /\ Len(completions) <= Len(requests)
                          /\ Len(requests) <= Len(completions) + 1)
  /\ Running ~> Over

\* C30 witness: generatePostFromHook is over with a post after its three
\* requests were answered.
C30_Witness ==
  /\ Over
  /\ op = "generatePostFromHook"
  /\ Len(requests) = Budget
  /\ Len(completions) = 3
  /\ ret.status = "ok"

====
